---- MODULE Spec2Model ----
(***************************************************************************)
(* Verification model of the VaultAI RAG core:                             *)
(*   app/services/rate_limiter.py  (RateLimiter)                           *)
(*   app/services/rag_service.py   (RAGService)                            *)
(*                                                                         *)
(* Time is the reading of time.time(), in whole seconds.  The clock is an  *)
(* input of the program: it never goes backwards, and two consecutive      *)
(* readings may be equal (a clock has a finite resolution).                *)
(***************************************************************************)
EXTENDS Integers, Sequences, FiniteSets, TLC

(***************************************************************************)
(* Bounds of the model.                                                    *)
(***************************************************************************)
\* requests_per_minute handed to RateLimiter.__init__ (the limit R)
RequestsPerMinute == 2
\* total number of acquire() calls issued in one behaviour
MaxCalls == 5
\* the clock is advanced freely up to this reading
MaxTime == 90
\* amounts by which the clock reading may advance between two steps
ClockSteps == {30}

(***************************************************************************)
(* Program constants.                                                      *)
(***************************************************************************)
\* RateLimiter.window_size (seconds)
window_size == 60

\* callers of wait_sync: worker threads
SyncCallers == {"w1"}
\* callers of wait_async: coroutines of the one event loop
AsyncCallers == {"r1", "r2"}
Callers == SyncCallers \cup AsyncCallers
NoOne == "none"

VARIABLES
  now,            \* reading of time.time()
  request_times,  \* RateLimiter._request_times (deque, oldest first)
  lock,           \* holder of RateLimiter._lock (threading.Lock)
  async_lock,     \* holder of RateLimiter._async_lock (asyncio.Lock)
  pc,             \* position of each caller inside wait_sync / wait_async
  wait_time,      \* local wait_time of each caller
  sleep_until,    \* clock reading at which the caller's sleep is over
  recorded,       \* timestamps appended by the caller's current call
  calls,          \* acquire() calls issued so far
  started,        \* callers that have issued at least one call
  usage,          \* last value returned by get_current_usage()
  db_chunks,      \* DocumentChunk rows, keyed by chunk_index
  r_query,        \* query embedding returned by the provider
  r_document,     \* document_id asked for
  r_threshold,    \* similarity_threshold, a fraction [n, d]
  r_k,            \* num_chunks
  r_pc,           \* position of retrieve_relevant_chunks
  r_result,       \* its return value: (chunk, score) pairs
  aq_pc,          \* position of each answer_question request
  aq_include_suggestions,  \* its include_suggestions argument
  aq_relevant,    \* its relevant_chunks
  aq_citations,   \* number of citations (= context blocks) build_context made
  aq_slots,       \* timestamps recorded by its completed wait_async calls
  aq_provider_calls,  \* embedding / completion calls it has made, in order
  aq_result,      \* the dictionary it returned
  bc_chunks,      \* build_context: its chunks argument, (chunk, score) pairs
  bc_max_tokens,  \* its max_tokens argument
  bc_pc,          \* position of build_context
  bc_result,      \* the pairs it gave a context block and a citation
  bc_citations,   \* the citations it returned
  h_messages,     \* build_chat_history: its messages argument
  h_context_window,  \* its context_window argument
  h_pc,           \* position of build_chat_history
  h_result,       \* the history it returned
  db_session,     \* the committed chat_sessions row
  db_messages,    \* the committed chat_messages rows of that session
  ask_pc,         \* position of each ask_question request
  ask_session,    \* the ChatSession object the request has loaded
  ask_pending,    \* rows written by the request's open transaction
  mq_pc,          \* position of answer_multi_document_question
  mq_document_ids,  \* its document_ids argument
  mq_per_doc,     \* its num_chunks_per_doc argument
  mq_i,           \* documents retrieve_from_multiple_documents has handled
  mq_all_chunks,  \* all_chunks: (chunk, score, doc_id) entries
  mq_embed_calls, \* embeddings.aembed_query calls the request has made
  mq_slots,       \* timestamps recorded by its completed wait_async calls
  mq_result,      \* the entries that got a context block and a citation
  mq_answer,      \* the dictionary it returned
  g_rate_limiter, \* the module global _rate_limiter: None or an instance
  g_init_lock,    \* holder of the module's _init_lock
  g_pc,           \* position of each thread inside get_rate_limiter
  g_saw_none,     \* whether the thread's current call found the global None
  g_returned,     \* what the thread's calls have returned, in order
  g_constructed,  \* RateLimiter instances constructed so far
  g_resets,       \* reset_rate_limiter() calls so far
  tk_pc,          \* position of process_document_task
  tk_step,        \* the provider step it is at
  tk_retries,     \* self.request.retries of the current run
  tk_chunk_count, \* number of chunks chunk_text gives for the file
  tk_batches,     \* provider calls the current service method has left
  tk_slots,       \* timestamps recorded by the waits of the current run
  tk_provider_calls,  \* provider calls of the current run, in order
  tk_insights,    \* the insights extract_key_insights returned
  tk_pending_insights,  \* insight rows of the session not yet committed
  tk_failures,    \* the positions at which the earlier runs failed
  doc_status,     \* the committed Document.status
  doc_chunks,     \* the committed DocumentChunk rows of the document
  doc_insights    \* the committed DocumentInsight rows of the document

rlvars == <<now, request_times, lock, async_lock, pc, wait_time, sleep_until,
            recorded, calls, started, usage>>

rvars == <<db_chunks, r_query, r_document, r_threshold, r_k, r_pc, r_result>>

vars == <<now, request_times, lock, async_lock, pc, wait_time, sleep_until,
          recorded, calls, started, usage,
          db_chunks, r_query, r_document, r_threshold, r_k, r_pc, r_result,
          aq_pc, aq_include_suggestions, aq_relevant, aq_citations, aq_slots,
          aq_provider_calls, aq_result,
          bc_chunks, bc_max_tokens, bc_pc, bc_result, bc_citations,
          h_messages, h_context_window, h_pc, h_result,
          db_session, db_messages, ask_pc, ask_session, ask_pending,
          mq_pc, mq_document_ids, mq_per_doc, mq_i, mq_all_chunks,
          mq_embed_calls, mq_slots, mq_result, mq_answer,
          g_rate_limiter, g_init_lock, g_pc, g_saw_none, g_returned,
          g_constructed, g_resets,
          tk_pc, tk_step, tk_retries, tk_chunk_count, tk_batches, tk_slots,
          tk_provider_calls, tk_insights, tk_pending_insights, tk_failures,
          doc_status, doc_chunks, doc_insights>>

aqvars == <<aq_pc, aq_include_suggestions, aq_relevant, aq_citations, aq_slots,
            aq_provider_calls, aq_result>>

bcvars == <<bc_chunks, bc_max_tokens, bc_pc, bc_result, bc_citations>>

hvars == <<h_messages, h_context_window, h_pc, h_result>>

askvars == <<db_session, db_messages, ask_pc, ask_session, ask_pending>>

mqvars == <<mq_pc, mq_document_ids, mq_per_doc, mq_i, mq_all_chunks,
            mq_embed_calls, mq_slots, mq_result, mq_answer>>

gvars == <<g_rate_limiter, g_init_lock, g_pc, g_saw_none, g_returned,
           g_constructed, g_resets>>

tkvars == <<tk_pc, tk_step, tk_retries, tk_chunk_count, tk_batches, tk_slots,
            tk_provider_calls, tk_insights, tk_pending_insights, tk_failures,
            doc_status, doc_chunks, doc_insights>>

\* the variables of get_rate_limiter and of the document worker
yvars == <<gvars, tkvars>>

\* the variables of the other entry points of RAGService, of ask_question,
\* of get_rate_limiter and of the worker
xvars == <<bcvars, hvars, askvars, mqvars, yvars>>

Max(a, b) == IF a >= b THEN a ELSE b

(***************************************************************************)
(* RateLimiter: the pure parts.                                            *)
(***************************************************************************)
RECURSIVE cleanup_old_requests(_, _)
\* _cleanup_old_requests with current_time = t: pop from the left while the
\* head is strictly older than the cutoff
cleanup_old_requests(q, t) ==
  IF q # <<>> /\ Head(q) < t - window_size
    THEN cleanup_old_requests(Tail(q), t)
    ELSE q

\* get_wait_time waiting a whole window instead of the oldest timestamp's rest
get_wait_time_whole_window(q, t) ==
  IF Len(q) < RequestsPerMinute
    THEN 0
    ELSE window_size

\* _get_wait_time after its cleanup, with time.time() = t
get_wait_time(q, t) ==
  IF Len(q) < RequestsPerMinute
    THEN 0
    ELSE Max(0, Head(q) + window_size - t)

\* _record_request with time.time() = t
record_request(q, t) == Append(q, t)

\* number of recorded timestamps newer than (t - 60s)
InWindow(q, t) == Cardinality({i \in DOMAIN q : q[i] > t - window_size})

NoUsage == [requests_in_window |-> -1, requests_per_minute_limit |-> -1,
            remaining_requests |-> -1]

(***************************************************************************)
(* Initial states.                                                         *)
(***************************************************************************)
\* a freshly constructed RateLimiter, no caller inside
InitLimiter ==
  /\ now = 0
  /\ request_times = <<>>
  /\ lock = NoOne
  /\ async_lock = NoOne
  /\ pc = [p \in Callers |-> "idle"]
  /\ wait_time = [p \in Callers |-> 0]
  /\ sleep_until = [p \in Callers |-> 0]
  /\ recorded = [p \in Callers |-> 0]
  /\ calls = 0
  /\ started = {}
  /\ usage = NoUsage

\* no retrieval in progress, an empty chunk table
InitNoRetrieval ==
  /\ db_chunks = <<>>
  /\ r_query = <<>>
  /\ r_document = 0
  /\ r_threshold = [n |-> 0, d |-> 1]
  /\ r_k = 0
  /\ r_pc = "idle"
  /\ r_result = <<>>

\* a Python list of len elements, or a str of len characters
List(len) == [type |-> "list", len |-> len]
Str(len) == [type |-> "str", len |-> len]

NoResult == [context_used |-> -1, citations |-> -1,
             suggestions |-> [type |-> "none", len |-> 0]]

\* no answer_question request in progress
InitNoRequest ==
  /\ aq_pc = [p \in AsyncCallers |-> "idle"]
  /\ aq_include_suggestions = [p \in AsyncCallers |-> FALSE]
  /\ aq_relevant = [p \in AsyncCallers |-> <<>>]
  /\ aq_citations = [p \in AsyncCallers |-> 0]
  /\ aq_slots = [p \in AsyncCallers |-> 0]
  /\ aq_provider_calls = [p \in AsyncCallers |-> <<>>]
  /\ aq_result = [p \in AsyncCallers |-> NoResult]

\* Python's None where an integer or a timestamp is optional
None == -1

\* no build_context call
InitNoContext ==
  /\ bc_chunks = <<>>
  /\ bc_max_tokens = None
  /\ bc_pc = "idle"
  /\ bc_result = <<>>
  /\ bc_citations = <<>>

\* no build_chat_history call
InitNoHistory ==
  /\ h_messages = <<>>
  /\ h_context_window = 0
  /\ h_pc = "idle"
  /\ h_result = <<>>

\* a ChatSession row as the column defaults make it
NewSession == [message_count |-> 0, total_tokens_used |-> 0,
               last_message_at |-> None]

\* no ask_question request, a session without messages
InitNoAsk ==
  /\ db_session = NewSession
  /\ db_messages = <<>>
  /\ ask_pc = [p \in AsyncCallers |-> "idle"]
  /\ ask_session = [p \in AsyncCallers |-> NewSession]
  /\ ask_pending = [p \in AsyncCallers |-> <<>>]

NoAnswer == [citations |-> <<>>, documents_used |-> <<>>]

\* no answer_multi_document_question request
InitNoMulti ==
  /\ mq_pc = "idle"
  /\ mq_document_ids = <<>>
  /\ mq_per_doc = 0
  /\ mq_i = 0
  /\ mq_all_chunks = <<>>
  /\ mq_embed_calls = 0
  /\ mq_slots = 0
  /\ mq_result = <<>>
  /\ mq_answer = NoAnswer

\* the threads that call get_rate_limiter
Threads == {"t1", "t2", "t3"}

\* no get_rate_limiter call: the module as imported
InitNoGlobal ==
  /\ g_rate_limiter = None
  /\ g_init_lock = NoOne
  /\ g_pc = [t \in Threads |-> "idle"]
  /\ g_saw_none = [t \in Threads |-> FALSE]
  /\ g_returned = [t \in Threads |-> <<>>]
  /\ g_constructed = 0
  /\ g_resets = 0

\* the value of insights before extract_key_insights has returned
NoInsights ==
  [is_dict |-> FALSE, key_points |-> FALSE, entities |-> FALSE,
   action_items |-> FALSE]

\* a session without uncommitted insight rows
NoPending == [dirty |-> FALSE, rows |-> <<>>]

\* no process_document_task, a document without rows
InitNoTask ==
  /\ tk_pc = "idle"
  /\ tk_step = 0
  /\ tk_retries = 0
  /\ tk_chunk_count = 0
  /\ tk_batches = 0
  /\ tk_slots = 0
  /\ tk_provider_calls = <<>>
  /\ tk_insights = NoInsights
  /\ tk_pending_insights = NoPending
  /\ tk_failures = {}
  /\ doc_status = "PENDING"
  /\ doc_chunks = <<>>
  /\ doc_insights = <<>>

InitNoWorkers == InitNoGlobal /\ InitNoTask

InitNoOthers ==
  InitNoContext /\ InitNoHistory /\ InitNoAsk /\ InitNoMulti /\ InitNoWorkers

InitRL == InitLimiter /\ InitNoRetrieval /\ InitNoRequest /\ InitNoOthers

Sleeping(p) == pc[p] \in {"ws_sleep", "wa_sleep"}

\* the clock advances; it is capped only when nobody is waiting for it
Tick ==
  /\ \E d \in ClockSteps :
       /\ \/ now + d <= MaxTime
          \/ \E p \in Callers : Sleeping(p) /\ now < sleep_until[p]
       /\ now' = now + d
  /\ UNCHANGED <<request_times, lock, async_lock, pc, wait_time, sleep_until,
                 recorded, calls, started, usage>>
  /\ UNCHANGED <<rvars, aqvars, xvars>>

\* a caller issues its next acquire(): wait_sync for a thread, wait_async
\* for a coroutine
Acquire(p) ==
  /\ pc[p] \in {"idle", "done", "cancelled"}
  /\ calls < MaxCalls
  /\ calls' = calls + 1
  /\ started' = started \cup {p}
  /\ recorded' = [recorded EXCEPT ![p] = 0]
  /\ wait_time' = [wait_time EXCEPT ![p] = 0]
  /\ pc' = [pc EXCEPT ![p] = IF p \in SyncCallers THEN "ws_lock" ELSE "wa_alock"]
  /\ UNCHANGED <<now, request_times, lock, async_lock, sleep_until, usage>>
  /\ UNCHANGED <<rvars, aqvars, xvars>>

(***************************************************************************)
(* wait_sync: the whole body runs under self._lock.                        *)
(***************************************************************************)
\* with self._lock: ... _get_wait_time() -> _cleanup_old_requests()
ws_lock(p) ==
  /\ pc[p] = "ws_lock"
  /\ lock = NoOne
  /\ lock' = p
  /\ request_times' = cleanup_old_requests(request_times, now)
  /\ pc' = [pc EXCEPT ![p] = "ws_wait"]
  /\ UNCHANGED <<now, async_lock, wait_time, sleep_until, recorded, calls,
                 started, usage>>
  /\ UNCHANGED <<rvars, aqvars, xvars>>

\* rest of _get_wait_time, then "if wait_time > 0: time.sleep(wait_time)"
ws_wait(p) ==
  /\ pc[p] = "ws_wait"
  /\ LET w == get_wait_time(request_times, now) IN
       /\ wait_time' = [wait_time EXCEPT ![p] = w]
       /\ sleep_until' = [sleep_until EXCEPT ![p] = IF w > 0 THEN now + w ELSE 0]
       /\ pc' = [pc EXCEPT ![p] = IF w > 0 THEN "ws_sleep" ELSE "ws_record"]
  /\ UNCHANGED <<now, request_times, lock, async_lock, recorded, calls,
                 started, usage>>
  /\ UNCHANGED <<rvars, aqvars, xvars>>

\* time.sleep(wait_time) returns, then _cleanup_old_requests()
ws_sleep(p) ==
  /\ pc[p] = "ws_sleep"
  /\ now >= sleep_until[p]
  /\ request_times' = cleanup_old_requests(request_times, now)
  /\ pc' = [pc EXCEPT ![p] = "ws_record"]
  /\ wait_time' = [wait_time EXCEPT ![p] = 0]
  /\ sleep_until' = [sleep_until EXCEPT ![p] = 0]
  /\ UNCHANGED <<now, lock, async_lock, recorded, calls, started, usage>>
  /\ UNCHANGED <<rvars, aqvars, xvars>>

\* _record_request(), leave the with block
ws_record(p) ==
  /\ pc[p] = "ws_record"
  /\ request_times' = record_request(request_times, now)
  /\ recorded' = [recorded EXCEPT ![p] = @ + 1]
  /\ lock' = NoOne
  /\ pc' = [pc EXCEPT ![p] = "done"]
  /\ UNCHANGED <<now, async_lock, wait_time, sleep_until, calls, started,
                 usage>>
  /\ UNCHANGED <<rvars, aqvars, xvars>>

(***************************************************************************)
(* wait_async: the body runs under the asyncio lock; self._lock is taken   *)
(* three separate times inside it.                                         *)
(***************************************************************************)
\* async with self._get_async_lock()
wa_alock(p) ==
  /\ pc[p] = "wa_alock"
  /\ async_lock = NoOne
  /\ async_lock' = p
  /\ pc' = [pc EXCEPT ![p] = "wa_lock"]
  /\ UNCHANGED <<now, request_times, lock, wait_time, sleep_until, recorded,
                 calls, started, usage>>
  /\ UNCHANGED <<rvars, aqvars, xvars>>

\* with self._lock: ... _get_wait_time() -> _cleanup_old_requests()
wa_lock(p) ==
  /\ pc[p] = "wa_lock"
  /\ lock = NoOne
  /\ lock' = p
  /\ request_times' = cleanup_old_requests(request_times, now)
  /\ pc' = [pc EXCEPT ![p] = "wa_wait"]
  /\ UNCHANGED <<now, async_lock, wait_time, sleep_until, recorded, calls,
                 started, usage>>
  /\ UNCHANGED <<rvars, aqvars, xvars>>

\* wa_wait sleeping inside the with self._lock block
wa_wait_keeps_lock(p) ==
  /\ pc[p] = "wa_wait"
  /\ LET w == get_wait_time(request_times, now) IN
       /\ wait_time' = [wait_time EXCEPT ![p] = w]
       /\ sleep_until' = [sleep_until EXCEPT ![p] = IF w > 0 THEN now + w ELSE 0]
       /\ pc' = [pc EXCEPT ![p] = IF w > 0 THEN "wa_sleep" ELSE "wa_record"]
  /\ lock' = IF get_wait_time(request_times, now) > 0 THEN p ELSE NoOne
  /\ UNCHANGED <<now, request_times, async_lock, recorded, calls, started,
                 usage>>
  /\ UNCHANGED <<rvars, aqvars, xvars>>

\* rest of _get_wait_time, leave the with self._lock block, then
\* "if wait_time > 0: await asyncio.sleep(wait_time)"
wa_wait(p) ==
  /\ pc[p] = "wa_wait"
  /\ LET w == get_wait_time(request_times, now) IN
       /\ wait_time' = [wait_time EXCEPT ![p] = w]
       /\ sleep_until' = [sleep_until EXCEPT ![p] = IF w > 0 THEN now + w ELSE 0]
       /\ pc' = [pc EXCEPT ![p] = IF w > 0 THEN "wa_sleep" ELSE "wa_record"]
  /\ lock' = NoOne
  /\ UNCHANGED <<now, request_times, async_lock, recorded, calls, started,
                 usage>>
  /\ UNCHANGED <<rvars, aqvars, xvars>>

\* asyncio.sleep(wait_time) is over, then with self._lock:
\* _cleanup_old_requests()
wa_sleep(p) ==
  /\ pc[p] = "wa_sleep"
  /\ now >= sleep_until[p]
  /\ lock = NoOne
  /\ request_times' = cleanup_old_requests(request_times, now)
  /\ pc' = [pc EXCEPT ![p] = "wa_record"]
  /\ wait_time' = [wait_time EXCEPT ![p] = 0]
  /\ sleep_until' = [sleep_until EXCEPT ![p] = 0]
  /\ UNCHANGED <<now, lock, async_lock, recorded, calls, started, usage>>
  /\ UNCHANGED <<rvars, aqvars, xvars>>

\* with self._lock: _record_request(); leave the async with block
wa_record(p) ==
  /\ pc[p] = "wa_record"
  /\ lock = NoOne
  /\ request_times' = record_request(request_times, now)
  /\ recorded' = [recorded EXCEPT ![p] = @ + 1]
  /\ async_lock' = NoOne
  /\ pc' = [pc EXCEPT ![p] = "done"]
  /\ UNCHANGED <<now, lock, wait_time, sleep_until, calls, started, usage>>
  /\ UNCHANGED <<rvars, aqvars, xvars>>

\* wa_cancel recording the request in a finally block
wa_cancel_records(p) ==
  /\ pc[p] \in {"wa_alock", "wa_sleep"}
  /\ async_lock' = IF async_lock = p THEN NoOne ELSE async_lock
  /\ pc' = [pc EXCEPT ![p] = "cancelled"]
  /\ sleep_until' = [sleep_until EXCEPT ![p] = 0]
  /\ request_times' = record_request(request_times, now)
  /\ recorded' = [recorded EXCEPT ![p] = @ + 1]
  /\ UNCHANGED <<now, lock, wait_time, calls, started, usage>>
  /\ UNCHANGED <<rvars, aqvars, xvars>>

\* the task running wait_async is cancelled while it is suspended (waiting
\* for the asyncio lock or in asyncio.sleep): CancelledError is raised at the
\* await and leaves the async with block
wa_cancel(p) ==
  /\ pc[p] \in {"wa_alock", "wa_sleep"}
  /\ async_lock' = IF async_lock = p THEN NoOne ELSE async_lock
  /\ pc' = [pc EXCEPT ![p] = "cancelled"]
  /\ sleep_until' = [sleep_until EXCEPT ![p] = 0]
  /\ UNCHANGED <<now, request_times, lock, wait_time, recorded, calls,
                 started, usage>>
  /\ UNCHANGED <<rvars, aqvars, xvars>>

(***************************************************************************)
(* get_current_usage: one critical section under self._lock.               *)
(***************************************************************************)
\* get_current_usage counting itself as a request
get_current_usage_consumes ==
  /\ lock = NoOne
  /\ LET q == record_request(cleanup_old_requests(request_times, now), now)
         current_count == Len(q) IN
       /\ request_times' = q
       /\ usage' = [requests_in_window |-> current_count,
                    requests_per_minute_limit |-> RequestsPerMinute,
                    remaining_requests |-> Max(0, RequestsPerMinute - current_count)]
  /\ UNCHANGED <<now, lock, async_lock, pc, wait_time, sleep_until, recorded,
                 calls, started>>
  /\ UNCHANGED <<rvars, aqvars, xvars>>

get_current_usage ==
  /\ lock = NoOne
  /\ LET q == cleanup_old_requests(request_times, now)
         current_count == Len(q) IN
       /\ request_times' = q
       /\ usage' = [requests_in_window |-> current_count,
                    requests_per_minute_limit |-> RequestsPerMinute,
                    remaining_requests |-> Max(0, RequestsPerMinute - current_count)]
  /\ UNCHANGED <<now, lock, async_lock, pc, wait_time, sleep_until, recorded,
                 calls, started>>
  /\ UNCHANGED <<rvars, aqvars, xvars>>

NextRL ==
  \/ Tick
  \/ get_current_usage
  \/ \E p \in Callers : Acquire(p)
  \/ \E p \in SyncCallers : ws_lock(p)
  \/ \E p \in SyncCallers : ws_wait(p)
  \/ \E p \in SyncCallers : ws_sleep(p)
  \/ \E p \in SyncCallers : ws_record(p)
  \/ \E p \in AsyncCallers : wa_alock(p)
  \/ \E p \in AsyncCallers : wa_lock(p)
  \/ \E p \in AsyncCallers : wa_wait(p)
  \/ \E p \in AsyncCallers : wa_sleep(p)
  \/ \E p \in AsyncCallers : wa_record(p)
  \/ \E p \in AsyncCallers : wa_cancel(p)

Spec == InitRL /\ [][NextRL]_vars

(***************************************************************************)
(* The same limiter under the scheduling that progress depends on:         *)
(* the clock keeps advancing, every thread and coroutine that can take a   *)
(* step eventually takes it (a lock that is released again and again is    *)
(* eventually obtained), and no task is cancelled.                         *)
(***************************************************************************)
CallerStep(p) ==
  \/ ws_lock(p) \/ ws_wait(p) \/ ws_sleep(p) \/ ws_record(p)
  \/ wa_alock(p) \/ wa_lock(p) \/ wa_wait(p) \/ wa_sleep(p) \/ wa_record(p)

NextLive ==
  \/ Tick
  \/ \E p \in Callers : Acquire(p)
  \/ \E p \in Callers : CallerStep(p)

LiveSpec ==
  /\ InitRL
  /\ [][NextLive]_vars
  /\ WF_vars(Tick)
  /\ \A p \in Callers : SF_vars(CallerStep(p))

(***************************************************************************)
(* RAGService.retrieve_relevant_chunks, after the query embedding has been *)
(* obtained.  Embeddings are vectors of integers; a similarity is kept as  *)
(* the exact pair (dot, |a|^2 |b|^2), standing for dot / sqrt(|a|^2 |b|^2),*)
(* so that comparisons are those of the real numbers the floats stand for. *)
(***************************************************************************)
\* number of DocumentChunk rows in the table
MaxChunks == 3
\* largest num_chunks asked for
MaxK == 3
\* documents owning chunks; retrieval asks for one of them
Documents == {1, 2}
\* values of DocumentChunk.embedding (a JSON column): null, [], vectors of
\* the query's dimension (one of them zero), and a vector of another dimension
NullEmbedding == [present |-> FALSE, vec |-> <<>>]
Vec(v) == [present |-> TRUE, vec |-> v]
Embeddings ==
  {NullEmbedding, Vec(<<>>), Vec(<<1, 0>>), Vec(<<0, 1>>), Vec(<<9, 1>>),
   Vec(<<0, 0>>), Vec(<<-1, 0>>), Vec(<<1, 0, 0>>)}
QueryEmbeddings == {<<1, 0>>, <<1, 1>>}
\* similarity_threshold values in [0, 1], as fractions n/d
Thresholds == {[n |-> 0, d |-> 1], [n |-> 1, d |-> 2], [n |-> 7, d |-> 10],
               [n |-> 1, d |-> 1]}

RECURSIVE Dot(_, _)
Dot(a, b) == IF a = <<>> THEN 0 ELSE Head(a) * Head(b) + Dot(Tail(a), Tail(b))

\* cosine_similarity: np.dot raises ValueError for vectors of different
\* length; a zero norm makes the quotient 0.0/0.0 = nan
cosine_similarity(vec1, vec2) ==
  IF Len(vec1) # Len(vec2)
    THEN [error |-> TRUE, dot |-> 0, nn |-> 0]
    ELSE [error |-> FALSE, dot |-> Dot(vec1, vec2),
          nn |-> Dot(vec1, vec1) * Dot(vec2, vec2)]

IsNaN(score) == score.nn = 0

\* score >= similarity_threshold (False for nan)
ScoreGE(score, thr) ==
  /\ ~IsNaN(score)
  /\ score.dot >= 0
  /\ score.dot * score.dot * thr.d * thr.d >= thr.n * thr.n * score.nn

\* s1 > s2 for two similarities that are numbers
ScoreGT(s1, s2) ==
  IF s1.dot >= 0 /\ s2.dot < 0 THEN TRUE
  ELSE IF s1.dot < 0 /\ s2.dot >= 0 THEN FALSE
  ELSE IF s1.dot >= 0
    THEN s1.dot * s1.dot * s2.nn > s2.dot * s2.dot * s1.nn
    ELSE s1.dot * s1.dot * s2.nn < s2.dot * s2.dot * s1.nn

\* "if chunk.embedding": None and [] are falsy
HasEmbedding(chunk) == chunk.embedding.present /\ chunk.embedding.vec # <<>>

RECURSIVE select_chunks_all(_, _, _)
\* select_chunks without the where clause on document_id
select_chunks_all(rows, document_id, i) ==
  IF i > Len(rows) THEN <<>>
  ELSE <<rows[i]>> \o select_chunks_all(rows, document_id, i + 1)

RECURSIVE select_chunks(_, _, _)
\* select(DocumentChunk).where(document_id == ...).order_by(chunk_index):
\* the rows of the document from index i on, by ascending chunk_index
select_chunks(rows, document_id, i) ==
  IF i > Len(rows) THEN <<>>
  ELSE IF rows[i].document_id = document_id
    THEN <<rows[i]>> \o select_chunks(rows, document_id, i + 1)
    ELSE select_chunks(rows, document_id, i + 1)

RECURSIVE score_chunks(_, _, _)
\* the scoring loop: chunks with an embedding are scored, those at or above
\* the threshold are collected; an exception of cosine_similarity ends it
score_chunks(chunks, query_embedding, thr) ==
  IF chunks = <<>> THEN [raised |-> FALSE, scored |-> <<>>]
  ELSE
    LET chunk == Head(chunks) IN
    IF ~HasEmbedding(chunk)
      THEN score_chunks(Tail(chunks), query_embedding, thr)
      ELSE
        LET score == cosine_similarity(query_embedding, chunk.embedding.vec) IN
        IF score.error THEN [raised |-> TRUE, scored |-> <<>>]
        ELSE
          LET rest == score_chunks(Tail(chunks), query_embedding, thr) IN
          IF rest.raised THEN rest
          ELSE IF ScoreGE(score, thr)
            THEN [raised |-> FALSE,
                  scored |-> <<[chunk |-> chunk, score |-> score]>> \o rest.scored]
            ELSE rest

RECURSIVE InsertDescTiesReversed(_, _)
\* InsertDesc as an ascending sort followed by reverse(): equal scores end
\* up in reverse order
InsertDescTiesReversed(sorted, x) ==
  IF sorted = <<>> THEN <<x>>
  ELSE IF ~ScoreGT(Head(sorted).score, x.score)
    THEN <<x>> \o sorted
    ELSE <<Head(sorted)>> \o InsertDescTiesReversed(Tail(sorted), x)

RECURSIVE InsertDesc(_, _)
\* place x behind every element whose score is not smaller
InsertDesc(sorted, x) ==
  IF sorted = <<>> THEN <<x>>
  ELSE IF ScoreGT(x.score, Head(sorted).score)
    THEN <<x>> \o sorted
    ELSE <<Head(sorted)>> \o InsertDesc(Tail(sorted), x)

RECURSIVE SortDesc(_, _)
\* list.sort(key=score, reverse=True): descending and stable
SortDesc(xs, acc) ==
  IF xs = <<>> THEN acc ELSE SortDesc(Tail(xs), InsertDesc(acc, Head(xs)))

\* scored_chunks[:num_chunks]
Take(xs, k) == SubSeq(xs, 1, IF k < Len(xs) THEN k ELSE Len(xs))

\* the body of retrieve_relevant_chunks from the database query on
retrieve_relevant_chunks(rows, document_id, query_embedding, num_chunks, thr) ==
  LET chunks == select_chunks(rows, document_id, 1)
      res == score_chunks(chunks, query_embedding, thr) IN
  IF res.raised
    THEN [raised |-> TRUE, chunks |-> <<>>]
    ELSE [raised |-> FALSE, chunks |-> Take(SortDesc(res.scored, <<>>), num_chunks)]

\* the rows a chunk table can hold: row i has chunk_index i - 1
ChunkRows(n) ==
  {rows \in [1..n -> [chunk_index : 0..(n - 1), document_id : Documents,
                       embedding : Embeddings]] :
     \A i \in 1..n : rows[i].chunk_index = i - 1}

InitRetrieve ==
  /\ InitLimiter
  /\ InitNoRequest
  /\ InitNoOthers
  /\ db_chunks \in UNION {ChunkRows(n) : n \in 0..MaxChunks}
  /\ r_query \in QueryEmbeddings
  /\ r_document = 1
  /\ r_threshold \in Thresholds
  /\ r_k \in 1..MaxK
  /\ r_pc = "idle"
  /\ r_result = <<>>

\* retrieve_relevant_chunks runs on the inputs and returns or raises
Retrieve ==
  /\ r_pc = "idle"
  /\ LET res == retrieve_relevant_chunks(db_chunks, r_document, r_query, r_k,
                                          r_threshold) IN
       /\ r_pc' = IF res.raised THEN "raised" ELSE "returned"
       /\ r_result' = res.chunks
  /\ UNCHANGED <<db_chunks, r_query, r_document, r_threshold, r_k>>
  /\ UNCHANGED <<rlvars, aqvars, xvars>>

NextRetrieve == Retrieve

SpecRetrieve == InitRetrieve /\ [][NextRetrieve]_vars

(***************************************************************************)
(* RAGService.build_context and RAGService.answer_question.  A request is  *)
(* a coroutine of the event loop; its rate-limiter acquisitions are the    *)
(* wait_async steps above.                                                 *)
(***************************************************************************)
\* settings.max_context_tokens
max_context_tokens == 4000
\* rows of the document the requests ask about
MaxRequestChunks == 2
\* the rows of that document: an embedding at similarity 1 or 0 to the query,
\* DocumentChunk.token_count (0: unset) and the length of the content
RequestChunkKinds ==
  {[embedding |-> Vec(<<1, 0>>), token_count |-> 0, content_len |-> 8],
   [embedding |-> Vec(<<1, 0>>), token_count |-> 3000, content_len |-> 8],
   [embedding |-> Vec(<<1, 0>>), token_count |-> 5000, content_len |-> 8],
   [embedding |-> Vec(<<0, 1>>), token_count |-> 0, content_len |-> 8]}

\* AIService.count_tokens of a text of the given length
count_tokens(length) == length \div 4

RECURSIVE build_context_from(_, _, _)
\* the loop of build_context: the chunks included, given the tokens used so
\* far; it breaks at the first chunk that does not fit
build_context_from(chunks, max_tokens, current_tokens) ==
  IF chunks = <<>> THEN <<>>
  ELSE
    LET chunk == Head(chunks).chunk
        chunk_tokens == IF chunk.token_count # 0 THEN chunk.token_count
                        ELSE count_tokens(chunk.content_len) IN
    IF current_tokens + chunk_tokens > max_tokens THEN <<>>
    ELSE <<Head(chunks)>> \o
         build_context_from(Tail(chunks), max_tokens, current_tokens + chunk_tokens)

\* build_context: the (chunk, score) pairs that get a context block and a
\* citation; "max_tokens or self.max_context_tokens"
build_context(chunks, max_tokens) ==
  build_context_from(chunks,
                     IF max_tokens # None /\ max_tokens # 0
                       THEN max_tokens ELSE max_context_tokens, 0)

\* characters of the content a citation shows
snippet_chars == 200

\* a string made of the first chars characters of a chunk's content,
\* followed or not by "..."
Snippet(chars, ellipsis) == [chars |-> chars, ellipsis |-> ellipsis]

\* content_snippet with the ellipsis appended whatever the length
content_snippet_always_ellipsis(content_len) ==
  Snippet(IF content_len > snippet_chars THEN snippet_chars ELSE content_len,
          TRUE)

\* chunk.content[:200] + "..." if len(chunk.content) > 200 else chunk.content
content_snippet(content_len) ==
  IF content_len > snippet_chars
    THEN Snippet(snippet_chars, TRUE)
    ELSE Snippet(content_len, FALSE)

\* the citations build_context appends, one per included chunk
make_citations(included) ==
  [i \in DOMAIN included |->
     [chunk_id |-> included[i].chunk.chunk_index,
      content_snippet |-> content_snippet(included[i].chunk.content_len),
      relevance_score |-> included[i].score]]

\* row i has chunk_index i - 1 and belongs to document 1
RequestRows(n) ==
  {[i \in 1..n |-> [chunk_index |-> i - 1, document_id |-> 1,
                     embedding |-> kinds[i].embedding,
                     token_count |-> kinds[i].token_count,
                     content_len |-> kinds[i].content_len]] :
     kinds \in [1..n -> RequestChunkKinds]}

\* the include_suggestions arguments of the requests; the requests are
\* interchangeable, so of the two mixed cases one is kept
IncludeSuggestions ==
  {f \in [AsyncCallers -> BOOLEAN] : f["r2"] => f["r1"]}

InitAQ ==
  /\ InitLimiter
  /\ InitNoOthers
  /\ db_chunks \in UNION {RequestRows(n) : n \in 0..MaxRequestChunks}
  /\ r_query = <<1, 0>>
  /\ r_document = 1
  /\ r_threshold = [n |-> 7, d |-> 10]
  /\ r_k = MaxK
  /\ r_pc = "idle"
  /\ r_result = <<>>
  /\ aq_pc = [p \in AsyncCallers |-> "idle"]
  /\ aq_include_suggestions \in IncludeSuggestions
  /\ aq_relevant = [p \in AsyncCallers |-> <<>>]
  /\ aq_citations = [p \in AsyncCallers |-> 0]
  /\ aq_slots = [p \in AsyncCallers |-> 0]
  /\ aq_provider_calls = [p \in AsyncCallers |-> <<>>]
  /\ aq_result = [p \in AsyncCallers |-> NoResult]

\* "await self._rate_limiter.wait_async()" is entered
EnterWaitAsync(p) ==
  /\ pc[p] = "idle"
  /\ pc' = [pc EXCEPT ![p] = "wa_alock"]
  /\ recorded' = [recorded EXCEPT ![p] = 0]
  /\ wait_time' = [wait_time EXCEPT ![p] = 0]
  /\ UNCHANGED <<now, request_times, lock, async_lock, sleep_until, calls,
                 started, usage>>

\* wait_async has returned to the request
LeaveWaitAsync(p) ==
  /\ pc[p] = "done"
  /\ pc' = [pc EXCEPT ![p] = "idle"]
  /\ aq_slots' = [aq_slots EXCEPT ![p] = @ + recorded[p]]
  /\ recorded' = [recorded EXCEPT ![p] = 0]
  /\ UNCHANGED <<now, request_times, lock, async_lock, wait_time, sleep_until,
                 calls, started, usage>>

\* aq_start with the embedding call not rate-limited
aq_start_unlimited(p) ==
  /\ aq_pc[p] = "idle"
  /\ pc[p] = "idle"
  /\ pc' = [pc EXCEPT ![p] = "done"]
  /\ UNCHANGED <<now, request_times, lock, async_lock, wait_time, sleep_until,
                 recorded, calls, started, usage>>
  /\ aq_pc' = [aq_pc EXCEPT ![p] = "retrieve"]
  /\ UNCHANGED <<aq_include_suggestions, aq_relevant, aq_citations, aq_slots,
                 aq_provider_calls, aq_result>>
  /\ UNCHANGED <<rvars, xvars>>

\* answer_question is called: retrieve_relevant_chunks starts with
\* wait_async
aq_start(p) ==
  /\ aq_pc[p] = "idle"
  /\ EnterWaitAsync(p)
  /\ aq_pc' = [aq_pc EXCEPT ![p] = "retrieve"]
  /\ UNCHANGED <<aq_include_suggestions, aq_relevant, aq_citations, aq_slots,
                 aq_provider_calls, aq_result>>
  /\ UNCHANGED <<rvars, xvars>>

\* a call of a provider: the method, the context handed to the prompt and
\* what came back
ProviderCall(call, context, response) ==
  [call |-> call, context |-> context, response |-> response]

\* PromptContext without the marker
PromptContext_no_marker(citations) == "context"

\* the "context" value of the answer prompt: the built context, or the
\* marker "No relevant context found in the document." when it is empty
PromptContext(citations) == IF citations > 0 THEN "context" ELSE "marker"

\* aq_embed going on to the scoring when the provider failed
aq_embed_ignores_failure(p) ==
  /\ aq_pc[p] = "retrieve"
  /\ LeaveWaitAsync(p)
  /\ \E ok \in BOOLEAN :
       /\ aq_provider_calls' =
            [aq_provider_calls EXCEPT
               ![p] = Append(@, ProviderCall("aembed_query", "",
                                             IF ok THEN "ok" ELSE "raise"))]
       /\ aq_pc' = [aq_pc EXCEPT ![p] = "score"]
  /\ UNCHANGED <<aq_include_suggestions, aq_relevant, aq_citations, aq_result>>
  /\ UNCHANGED <<rvars, xvars>>

\* embeddings.aembed_query: the provider answers or fails
aq_embed(p) ==
  /\ aq_pc[p] = "retrieve"
  /\ LeaveWaitAsync(p)
  /\ \E ok \in BOOLEAN :
       /\ aq_provider_calls' =
            [aq_provider_calls EXCEPT
               ![p] = Append(@, ProviderCall("aembed_query", "",
                                             IF ok THEN "ok" ELSE "raise"))]
       /\ aq_pc' = [aq_pc EXCEPT ![p] = IF ok THEN "score" ELSE "failed"]
  /\ UNCHANGED <<aq_include_suggestions, aq_relevant, aq_citations, aq_result>>
  /\ UNCHANGED <<rvars, xvars>>

\* the rest of retrieve_relevant_chunks: query, score, sort, cut
aq_retrieve(p) ==
  /\ aq_pc[p] = "score"
  /\ LET res == retrieve_relevant_chunks(db_chunks, r_document, r_query, r_k,
                                          r_threshold) IN
       /\ aq_relevant' = [aq_relevant EXCEPT ![p] = res.chunks]
       /\ aq_pc' = [aq_pc EXCEPT ![p] = IF res.raised THEN "failed"
                                         ELSE "build_context"]
  /\ UNCHANGED <<aq_include_suggestions, aq_citations, aq_slots,
                 aq_provider_calls, aq_result>>
  /\ UNCHANGED <<rlvars, rvars, xvars>>

\* context, citations = self.build_context(relevant_chunks)
aq_build_context(p) ==
  /\ aq_pc[p] = "build_context"
  /\ aq_citations' = [aq_citations EXCEPT ![p] = Len(build_context(aq_relevant[p], None))]
  /\ aq_pc' = [aq_pc EXCEPT ![p] = "load_history"]
  /\ UNCHANGED <<aq_include_suggestions, aq_relevant, aq_slots,
                 aq_provider_calls, aq_result>>
  /\ UNCHANGED <<rlvars, rvars, xvars>>

\* the chat history is loaded, the prompt is built, wait_async is entered
aq_load_history(p) ==
  /\ aq_pc[p] = "load_history"
  /\ EnterWaitAsync(p)
  /\ aq_pc' = [aq_pc EXCEPT ![p] = "generate"]
  /\ UNCHANGED <<aq_include_suggestions, aq_relevant, aq_citations, aq_slots,
                 aq_provider_calls, aq_result>>
  /\ UNCHANGED <<rvars, xvars>>

\* what answer_question returns
Answer(p, suggestions) ==
  [context_used |-> Len(aq_relevant[p]), citations |-> aq_citations[p],
   suggestions |-> suggestions]

\* chain.ainvoke: the provider answers or fails; with an answer, either the
\* suggestions are asked for (wait_async is entered) or the result is
\* returned
aq_generate(p) ==
  /\ aq_pc[p] = "generate"
  /\ \E ok \in BOOLEAN :
       /\ aq_provider_calls' =
            [aq_provider_calls EXCEPT
               ![p] = Append(@, ProviderCall("ainvoke",
                                             PromptContext(aq_citations[p]),
                                             IF ok THEN "ok" ELSE "raise"))]
       /\ IF ~ok
            THEN /\ LeaveWaitAsync(p)
                 /\ aq_pc' = [aq_pc EXCEPT ![p] = "failed"]
                 /\ UNCHANGED aq_result
          ELSE IF aq_include_suggestions[p] /\ aq_citations[p] > 0
            THEN /\ pc[p] = "done"
                 /\ pc' = [pc EXCEPT ![p] = "wa_alock"]
                 /\ aq_slots' = [aq_slots EXCEPT ![p] = @ + recorded[p]]
                 /\ recorded' = [recorded EXCEPT ![p] = 0]
                 /\ wait_time' = [wait_time EXCEPT ![p] = 0]
                 /\ UNCHANGED <<now, request_times, lock, async_lock,
                                sleep_until, calls, started, usage>>
                 /\ aq_pc' = [aq_pc EXCEPT ![p] = "suggest"]
                 /\ UNCHANGED aq_result
            ELSE /\ LeaveWaitAsync(p)
                 /\ aq_pc' = [aq_pc EXCEPT ![p] = "done"]
                 /\ aq_result' = [aq_result EXCEPT ![p] = Answer(p, List(0))]
  /\ UNCHANGED <<aq_include_suggestions, aq_relevant, aq_citations>>
  /\ UNCHANGED <<rvars, xvars>>

\* what the suggestion call can come back with: the provider raises, or
\* its text is not JSON, or it is JSON for a list of questions, for a string
\* or for an object
SuggestionResponses ==
  {[kind |-> "raise", len |-> 0], [kind |-> "text", len |-> 0],
   [kind |-> "list", len |-> 4],
   [kind |-> "string", len |-> 40], [kind |-> "object", len |-> 1]}

\* xs[:3] of a list or a str
FirstThree(xs) == [xs EXCEPT !.len = IF @ > 3 THEN 3 ELSE @]

\* the try block of _generate_follow_up_questions from the response on:
\* questions = json.loads(response.content); return questions[:3], and
\* "except Exception: return []".  json.loads raises on text that is not
\* JSON, and slicing raises on a dict
parse_questions(response) ==
  CASE response.kind = "list" -> FirstThree(List(response.len))
    [] response.kind = "string" -> FirstThree(Str(response.len))
    [] OTHER -> List(0)

\* _generate_follow_up_questions after its wait_async
aq_suggest(p) ==
  /\ aq_pc[p] = "suggest"
  /\ LeaveWaitAsync(p)
  /\ \E response \in SuggestionResponses :
       /\ aq_provider_calls' =
            [aq_provider_calls EXCEPT
               ![p] = Append(@, ProviderCall("ainvoke_suggestions", "context",
                                             response.kind))]
       /\ aq_result' = [aq_result EXCEPT ![p] = Answer(p, parse_questions(response))]
  /\ aq_pc' = [aq_pc EXCEPT ![p] = "done"]
  /\ UNCHANGED <<aq_include_suggestions, aq_relevant, aq_citations>>
  /\ UNCHANGED <<rvars, xvars>>

\* the request's task was cancelled inside wait_async: CancelledError is not
\* an Exception, it ends answer_question wherever it was
aq_cancelled(p) ==
  /\ aq_pc[p] \in {"retrieve", "generate", "suggest"}
  /\ pc[p] = "cancelled"
  /\ pc' = [pc EXCEPT ![p] = "idle"]
  /\ aq_pc' = [aq_pc EXCEPT ![p] = "cancelled"]
  /\ UNCHANGED <<now, request_times, lock, async_lock, wait_time, sleep_until,
                 recorded, calls, started, usage>>
  /\ UNCHANGED <<aq_include_suggestions, aq_relevant, aq_citations, aq_slots,
                 aq_provider_calls, aq_result>>
  /\ UNCHANGED <<rvars, xvars>>

NextAQ ==
  \/ Tick
  \/ \E p \in AsyncCallers : wa_alock(p)
  \/ \E p \in AsyncCallers : wa_lock(p)
  \/ \E p \in AsyncCallers : wa_wait(p)
  \/ \E p \in AsyncCallers : wa_sleep(p)
  \/ \E p \in AsyncCallers : wa_record(p)
  \/ \E p \in AsyncCallers : wa_cancel(p)
  \/ \E p \in AsyncCallers : aq_start(p)
  \/ \E p \in AsyncCallers : aq_embed(p)
  \/ \E p \in AsyncCallers : aq_retrieve(p)
  \/ \E p \in AsyncCallers : aq_build_context(p)
  \/ \E p \in AsyncCallers : aq_load_history(p)
  \/ \E p \in AsyncCallers : aq_generate(p)
  \/ \E p \in AsyncCallers : aq_suggest(p)
  \/ \E p \in AsyncCallers : aq_cancelled(p)

SpecAQ == InitAQ /\ [][NextAQ]_vars

(***************************************************************************)
(* RAGService.build_context called on its own: a ranked list of chunks     *)
(* and a token budget.                                                     *)
(***************************************************************************)
\* chunks handed to build_context
MaxContextChunks == 3
\* DocumentChunk.token_count of those chunks (0: unset)
TokenCounts == {0, 40, 50, 60}
\* len(chunk.content) of those chunks
ContentLengths == {8, 200, 201}
\* the max_tokens argument
Budgets == {None, 0, 1, 100, 110, 150}

\* the i-th pair of the list: chunk i - 1 of the document with its score
ContextChunks(n) ==
  {[i \in 1..n |->
      [chunk |-> [chunk_index |-> i - 1, token_count |-> tc[i],
                  content_len |-> cl[i]],
       score |-> cosine_similarity(<<1, 0>>, <<1, 0>>)]] :
     tc \in [1..n -> TokenCounts], cl \in [1..n -> ContentLengths]}

InitContext ==
  /\ InitLimiter
  /\ InitNoWorkers
  /\ InitNoRetrieval
  /\ InitNoRequest
  /\ InitNoHistory
  /\ InitNoAsk
  /\ InitNoMulti
  /\ bc_chunks \in UNION {ContextChunks(n) : n \in 0..MaxContextChunks}
  /\ bc_max_tokens \in Budgets
  /\ bc_pc = "idle"
  /\ bc_result = <<>>
  /\ bc_citations = <<>>

\* build_context runs on the inputs and returns
BuildContext ==
  /\ bc_pc = "idle"
  /\ bc_pc' = "returned"
  /\ bc_result' = build_context(bc_chunks, bc_max_tokens)
  /\ bc_citations' = make_citations(build_context(bc_chunks, bc_max_tokens))
  /\ UNCHANGED <<bc_chunks, bc_max_tokens>>
  /\ UNCHANGED <<rlvars, rvars, aqvars, hvars, askvars, mqvars,
                 yvars>>

NextContext == BuildContext

SpecContext == InitContext /\ [][NextContext]_vars

(***************************************************************************)
(* RAGService.build_chat_history called on its own: the messages of a      *)
(* session, oldest first, and a context window.                            *)
(***************************************************************************)
\* messages of the session
MaxMessages == 5
\* largest context_window
MaxWindow == 2
\* MessageRole
Roles == {"user", "assistant", "system"}

\* the i-th message of the session has content i
Messages(n) ==
  {[i \in 1..n |-> [role |-> roles[i], content |-> i]] :
     roles \in [1..n -> Roles]}

\* messages[-n:] for n > 0
LastN(messages, n) ==
  SubSeq(messages, Max(1, Len(messages) - n + 1), Len(messages))

RECURSIVE to_langchain(_)
\* the loop of build_chat_history: a HumanMessage for a user turn, an
\* AIMessage for an assistant turn, nothing for any other role
to_langchain(messages) ==
  IF messages = <<>> THEN <<>>
  ELSE
    LET msg == Head(messages) IN
    (IF msg.role = "user"
       THEN <<[type |-> "HumanMessage", content |-> msg.content]>>
     ELSE IF msg.role = "assistant"
       THEN <<[type |-> "AIMessage", content |-> msg.content]>>
     ELSE <<>>) \o to_langchain(Tail(messages))

\* build_chat_history with a window of context_window turns, not pairs
build_chat_history_half_window(messages, context_window) ==
  to_langchain(IF Len(messages) > context_window
                 THEN LastN(messages, context_window)
                 ELSE messages)

build_chat_history(messages, context_window) ==
  to_langchain(IF Len(messages) > context_window * 2
                 THEN LastN(messages, context_window * 2)
                 ELSE messages)

InitHistory ==
  /\ InitLimiter
  /\ InitNoWorkers
  /\ InitNoRetrieval
  /\ InitNoRequest
  /\ InitNoContext
  /\ InitNoAsk
  /\ InitNoMulti
  /\ h_messages \in UNION {Messages(n) : n \in 0..MaxMessages}
  /\ h_context_window \in 1..MaxWindow
  /\ h_pc = "idle"
  /\ h_result = <<>>

\* build_chat_history runs on the inputs and returns
BuildChatHistory ==
  /\ h_pc = "idle"
  /\ h_pc' = "returned"
  /\ h_result' = build_chat_history(h_messages, h_context_window)
  /\ UNCHANGED <<h_messages, h_context_window>>
  /\ UNCHANGED <<rlvars, rvars, aqvars, bcvars, askvars, mqvars,
                 yvars>>

NextHistory == BuildChatHistory

SpecHistory == InitHistory /\ [][NextHistory]_vars

(***************************************************************************)
(* api/chat.py ask_question on one active chat session.  Every request     *)
(* has its own database session (get_async_session): what it adds is       *)
(* pending in its transaction until a commit.  answer_question is the      *)
(* request modelled above; here it is its outcome that matters: an answer  *)
(* with its total_tokens, or the exception of a failed embedding or        *)
(* completion call.                                                        *)
(***************************************************************************)
\* answer_data["total_tokens"] of an answer
AnswerTokens == {50, 70}

\* a chat_messages row
ChatMessage(role, request, total_tokens) ==
  [role |-> role, request |-> request, total_tokens |-> total_tokens]

\* what the session holds before the requests: nothing, or one exchange
PriorSessions ==
  {[messages |-> <<>>, session |-> NewSession],
   [messages |-> <<ChatMessage("user", "prior", 0),
                   ChatMessage("assistant", "prior", 120)>>,
    session |-> [message_count |-> 2, total_tokens_used |-> 120,
                 last_message_at |-> 0]]}

InitAsk ==
  /\ InitLimiter
  /\ InitNoWorkers
  /\ InitNoRetrieval
  /\ InitNoRequest
  /\ InitNoContext
  /\ InitNoHistory
  /\ InitNoMulti
  /\ \E prior \in PriorSessions :
       /\ db_session = prior.session
       /\ db_messages = prior.messages
  /\ ask_pc = [p \in AsyncCallers |-> "idle"]
  /\ ask_session = [p \in AsyncCallers |-> NewSession]
  /\ ask_pending = [p \in AsyncCallers |-> <<>>]

\* session = (select ChatSession ...).scalar()
ask_load(p) ==
  /\ ask_pc[p] = "idle"
  /\ ask_session' = [ask_session EXCEPT ![p] = db_session]
  /\ ask_pc' = [ask_pc EXCEPT ![p] = "loaded"]
  /\ UNCHANGED <<db_session, db_messages, ask_pending>>
  /\ UNCHANGED <<rlvars, rvars, aqvars, bcvars, hvars, mqvars,
                 yvars>>

\* db.add(user_message); await db.flush()
ask_flush(p) ==
  /\ ask_pc[p] = "loaded"
  /\ ask_pending' = [ask_pending EXCEPT ![p] = Append(@, ChatMessage("user", p, 0))]
  /\ ask_pc' = [ask_pc EXCEPT ![p] = "flushed"]
  /\ UNCHANGED <<db_session, db_messages, ask_session>>
  /\ UNCHANGED <<rlvars, rvars, aqvars, bcvars, hvars, mqvars,
                 yvars>>

\* await rag_service.answer_question(...): it raises, or it returns and the
\* assistant message is added and the session object is updated
ask_answer(p) ==
  /\ ask_pc[p] = "flushed"
  /\ \E outcome \in {"answer", "embedding_failed", "generation_failed"} :
       IF outcome = "answer"
         THEN \E total_tokens \in AnswerTokens :
                /\ ask_pending' =
                     [ask_pending EXCEPT
                        ![p] = Append(@, ChatMessage("assistant", p, total_tokens))]
                /\ ask_session' =
                     [ask_session EXCEPT
                        ![p] = [message_count |-> @.message_count + 2,
                                total_tokens_used |-> @.total_tokens_used + total_tokens,
                                last_message_at |-> now]]
                /\ ask_pc' = [ask_pc EXCEPT ![p] = "answered"]
         ELSE /\ ask_pc' = [ask_pc EXCEPT ![p] = "raised"]
              /\ UNCHANGED <<ask_pending, ask_session>>
  /\ UNCHANGED <<db_session, db_messages>>
  /\ UNCHANGED <<rlvars, rvars, aqvars, bcvars, hvars, mqvars,
                 yvars>>

\* await db.commit(): the pending rows and the session object's new values
\* are written
ask_commit(p) ==
  /\ ask_pc[p] = "answered"
  /\ db_messages' = db_messages \o ask_pending[p]
  /\ db_session' = ask_session[p]
  /\ ask_pending' = [ask_pending EXCEPT ![p] = <<>>]
  /\ ask_pc' = [ask_pc EXCEPT ![p] = "committed"]
  /\ UNCHANGED ask_session
  /\ UNCHANGED <<rlvars, rvars, aqvars, bcvars, hvars, mqvars,
                 yvars>>

\* get_async_session committing what is pending when the request raised
ask_rollback_commits(p) ==
  /\ ask_pc[p] = "raised"
  /\ db_messages' = db_messages \o ask_pending[p]
  /\ ask_pending' = [ask_pending EXCEPT ![p] = <<>>]
  /\ ask_pc' = [ask_pc EXCEPT ![p] = "failed"]
  /\ UNCHANGED <<db_session, ask_session>>
  /\ UNCHANGED <<rlvars, rvars, aqvars, bcvars, hvars, mqvars,
                 yvars>>

\* get_async_session: "except Exception: await session.rollback(); raise"
ask_rollback(p) ==
  /\ ask_pc[p] = "raised"
  /\ ask_pending' = [ask_pending EXCEPT ![p] = <<>>]
  /\ ask_pc' = [ask_pc EXCEPT ![p] = "failed"]
  /\ UNCHANGED <<db_session, db_messages, ask_session>>
  /\ UNCHANGED <<rlvars, rvars, aqvars, bcvars, hvars, mqvars,
                 yvars>>

NextAsk ==
  \/ Tick
  \/ \E p \in AsyncCallers : ask_load(p)
  \/ \E p \in AsyncCallers : ask_flush(p)
  \/ \E p \in AsyncCallers : ask_answer(p)
  \/ \E p \in AsyncCallers : ask_commit(p)
  \/ \E p \in AsyncCallers : ask_rollback(p)

SpecAsk == InitAsk /\ [][NextAsk]_vars

(***************************************************************************)
(* RAGService.answer_multi_document_question: one request, a coroutine of  *)
(* the event loop, over the documents of the chunk table.                  *)
(***************************************************************************)
\* the coroutine that runs the request
MultiCaller == "r1"
\* chunks of one document
MaxRowsPerDoc == 10
\* numbers of chunks a document can have
RowCounts == {0, 1, 6, MaxRowsPerDoc}
\* all_chunks[:10]
max_total_chunks == 10
\* the document_ids argument
DocumentIdLists == {<<1>>, <<1, 2>>, <<2, 1>>}

\* the embeddings of a document's chunks, by position: similarity 1 to the
\* query throughout, or about 0.99 and 0.71 in turn, or 0.71 and 0 in turn,
\* or 0 throughout
Profiles == {"same", "near", "far", "off"}
ProfileEmbedding(profile, i) ==
  CASE profile = "same" -> Vec(<<1, 0>>)
    [] profile = "near" -> IF i % 2 = 1 THEN Vec(<<9, 1>>) ELSE Vec(<<1, 1>>)
    [] profile = "far" -> IF i % 2 = 1 THEN Vec(<<1, 1>>) ELSE Vec(<<0, 1>>)
    [] OTHER -> Vec(<<0, 1>>)

\* len(chunk.content) of the chunk at a position: 200, 201 and 8 in turn
ProfileContentLength(i) ==
  IF i % 3 = 1 THEN 200 ELSE IF i % 3 = 2 THEN 201 ELSE 8

\* n1 chunks of document 1 followed by n2 chunks of document 2
MultiRows(n1, n2, profile1, profile2) ==
  [i \in 1..(n1 + n2) |->
     [chunk_index |-> i - 1,
      document_id |-> IF i <= n1 THEN 1 ELSE 2,
      embedding |-> IF i <= n1 THEN ProfileEmbedding(profile1, i)
                    ELSE ProfileEmbedding(profile2, i - n1),
      content_len |-> ProfileContentLength(i)]]

InitMulti ==
  /\ InitLimiter
  /\ InitNoWorkers
  /\ InitNoRequest
  /\ InitNoContext
  /\ InitNoHistory
  /\ InitNoAsk
  /\ db_chunks \in {MultiRows(n1, n2, profile1, profile2) :
                       n1 \in RowCounts, n2 \in RowCounts,
                       profile1 \in Profiles, profile2 \in Profiles}
  /\ r_query = <<1, 0>>
  /\ r_document = 0
  /\ r_threshold = [n |-> 7, d |-> 10]
  /\ r_k = 0
  /\ r_pc = "idle"
  /\ r_result = <<>>
  /\ mq_pc = "idle"
  /\ mq_document_ids \in DocumentIdLists
  /\ mq_per_doc \in {3, MaxRowsPerDoc}
  /\ mq_i = 0
  /\ mq_all_chunks = <<>>
  /\ mq_embed_calls = 0
  /\ mq_slots = 0
  /\ mq_result = <<>>
  /\ mq_answer = NoAnswer

\* wait_async has returned to the request
mq_leave_wait ==
  /\ pc[MultiCaller] = "done"
  /\ pc' = [pc EXCEPT ![MultiCaller] = "idle"]
  /\ mq_slots' = mq_slots + recorded[MultiCaller]
  /\ recorded' = [recorded EXCEPT ![MultiCaller] = 0]
  /\ UNCHANGED <<now, request_times, lock, async_lock, wait_time, sleep_until,
                 calls, started, usage>>

\* the request starts: retrieve_from_multiple_documents calls
\* retrieve_relevant_chunks for the first document, which starts with
\* wait_async
mq_start ==
  /\ mq_pc = "idle"
  /\ EnterWaitAsync(MultiCaller)
  /\ mq_pc' = "retrieve"
  /\ UNCHANGED <<mq_document_ids, mq_per_doc, mq_i, mq_all_chunks,
                 mq_embed_calls, mq_slots, mq_result, mq_answer>>
  /\ UNCHANGED <<rvars, aqvars, bcvars, hvars, askvars,
                 yvars>>

\* embeddings.aembed_query(query) for the current document
mq_embed ==
  /\ mq_pc = "retrieve"
  /\ mq_leave_wait
  /\ mq_embed_calls' = mq_embed_calls + 1
  /\ \E ok \in BOOLEAN : mq_pc' = IF ok THEN "score" ELSE "failed"
  /\ UNCHANGED <<mq_document_ids, mq_per_doc, mq_i, mq_all_chunks, mq_result,
                 mq_answer>>
  /\ UNCHANGED <<rvars, aqvars, bcvars, hvars, askvars,
                 yvars>>

\* (chunk, score) pairs with the document they came from
with_doc_id(chunks, doc_id) ==
  [i \in DOMAIN chunks |->
     [chunk |-> chunks[i].chunk, score |-> chunks[i].score, doc_id |-> doc_id]]

\* the rest of retrieve_relevant_chunks for the current document; its
\* chunks are appended to all_chunks; then the next document's retrieval
\* starts, or all_chunks is sorted and returned
mq_retrieve ==
  /\ mq_pc = "score"
  /\ LET doc_id == mq_document_ids[mq_i + 1]
         res == retrieve_relevant_chunks(db_chunks, doc_id, r_query,
                                          mq_per_doc, r_threshold)
         all_chunks == mq_all_chunks \o with_doc_id(res.chunks, doc_id) IN
       IF res.raised
         THEN /\ mq_pc' = "failed"
              /\ UNCHANGED <<mq_i, mq_all_chunks, rlvars>>
       ELSE IF mq_i + 1 < Len(mq_document_ids)
         THEN /\ mq_i' = mq_i + 1
              /\ mq_all_chunks' = all_chunks
              /\ EnterWaitAsync(MultiCaller)
              /\ mq_pc' = "retrieve"
         ELSE /\ mq_i' = mq_i + 1
              /\ mq_all_chunks' = SortDesc(all_chunks, <<>>)
              /\ mq_pc' = "build_context"
              /\ UNCHANGED rlvars
  /\ UNCHANGED <<mq_document_ids, mq_per_doc, mq_embed_calls, mq_slots,
                 mq_result, mq_answer>>
  /\ UNCHANGED <<rvars, aqvars, bcvars, hvars, askvars,
                 yvars>>

\* all chunks enter the context
limit_total_chunks_none(all_chunks) == all_chunks

\* all_chunks[:10]
limit_total_chunks(all_chunks) == Take(all_chunks, max_total_chunks)

\* the context blocks and citations are built from all_chunks[:10], the
\* prompt is made, wait_async is entered
mq_build_context ==
  /\ mq_pc = "build_context"
  /\ mq_result' = limit_total_chunks(mq_all_chunks)
  /\ EnterWaitAsync(MultiCaller)
  /\ mq_pc' = "generate"
  /\ UNCHANGED <<mq_document_ids, mq_per_doc, mq_i, mq_all_chunks,
                 mq_embed_calls, mq_slots, mq_answer>>
  /\ UNCHANGED <<rvars, aqvars, bcvars, hvars, askvars,
                 yvars>>

\* chunk.content[:200] + "..."
multi_content_snippet(content_len) ==
  Snippet(IF content_len > snippet_chars THEN snippet_chars ELSE content_len,
          TRUE)

\* the citations of the multi-document path, one per entry of all_chunks[:10]
make_multi_citations(included) ==
  [i \in DOMAIN included |->
     [chunk_id |-> included[i].chunk.chunk_index,
      document_id |-> included[i].doc_id,
      content_snippet |-> multi_content_snippet(included[i].chunk.content_len),
      relevance_score |-> included[i].score]]

\* the lists that hold every element of a set once, in any order
ListsOf(set) ==
  {list \in [1..Cardinality(set) -> set] :
     \A i, j \in DOMAIN list : i # j => list[i] # list[j]}

\* documents_used built without set(): one entry per citation
documents_used_per_citation(cits) ==
  {[i \in DOMAIN cits |-> cits[i].document_id]}

\* list(set(str(c["document_id"]) for c in citations)): the values it can
\* have, the order of a set's elements being unspecified
documents_used(cits) ==
  ListsOf({cits[i].document_id : i \in DOMAIN cits})

\* chain.ainvoke: the provider answers and the result is returned, or it
\* fails
mq_generate ==
  /\ mq_pc = "generate"
  /\ mq_leave_wait
  /\ \E ok \in BOOLEAN :
       IF ok
         THEN /\ mq_pc' = "done"
              /\ \E used \in documents_used(make_multi_citations(mq_result)) :
                   mq_answer' = [citations |-> make_multi_citations(mq_result),
                                 documents_used |-> used]
         ELSE /\ mq_pc' = "failed"
              /\ UNCHANGED mq_answer
  /\ UNCHANGED <<mq_document_ids, mq_per_doc, mq_i, mq_all_chunks,
                 mq_embed_calls, mq_result>>
  /\ UNCHANGED <<rvars, aqvars, bcvars, hvars, askvars,
                 yvars>>

\* the request's task was cancelled inside wait_async
mq_cancelled ==
  /\ mq_pc \in {"retrieve", "generate"}
  /\ pc[MultiCaller] = "cancelled"
  /\ pc' = [pc EXCEPT ![MultiCaller] = "idle"]
  /\ mq_pc' = "cancelled"
  /\ UNCHANGED <<now, request_times, lock, async_lock, wait_time, sleep_until,
                 recorded, calls, started, usage>>
  /\ UNCHANGED <<mq_document_ids, mq_per_doc, mq_i, mq_all_chunks,
                 mq_embed_calls, mq_slots, mq_result, mq_answer>>
  /\ UNCHANGED <<rvars, aqvars, bcvars, hvars, askvars,
                 yvars>>

NextMulti ==
  \/ Tick
  \/ wa_alock(MultiCaller)
  \/ wa_lock(MultiCaller)
  \/ wa_wait(MultiCaller)
  \/ wa_sleep(MultiCaller)
  \/ wa_record(MultiCaller)
  \/ wa_cancel(MultiCaller)
  \/ mq_start
  \/ mq_embed
  \/ mq_retrieve
  \/ mq_build_context
  \/ mq_generate
  \/ mq_cancelled

SpecMulti == InitMulti /\ [][NextMulti]_vars

(***************************************************************************)
(* get_rate_limiter / reset_rate_limiter: the module global _rate_limiter, *)
(* read and written by the threads of the process.                         *)
(***************************************************************************)
\* get_rate_limiter() calls of one thread
MaxGetCalls == 2
\* reset_rate_limiter() calls
MaxResets == 1

InitGlobal ==
  /\ InitLimiter
  /\ InitNoRetrieval
  /\ InitNoRequest
  /\ InitNoContext
  /\ InitNoHistory
  /\ InitNoAsk
  /\ InitNoMulti
  /\ InitNoTask
  /\ InitNoGlobal

\* a thread calls get_rate_limiter()
g_call(t) ==
  /\ g_pc[t] = "idle"
  /\ Len(g_returned[t]) < MaxGetCalls
  /\ g_pc' = [g_pc EXCEPT ![t] = "check"]
  /\ g_saw_none' = [g_saw_none EXCEPT ![t] = FALSE]
  /\ UNCHANGED <<g_rate_limiter, g_init_lock, g_returned, g_constructed,
                 g_resets>>
  /\ UNCHANGED <<rlvars, rvars, aqvars, bcvars, hvars, askvars, mqvars, tkvars>>

\* the outer "if _rate_limiter is None"
g_check(t) ==
  /\ g_pc[t] = "check"
  /\ g_pc' = [g_pc EXCEPT ![t] = IF g_rate_limiter = None THEN "lock"
                                 ELSE "return"]
  /\ g_saw_none' = [g_saw_none EXCEPT ![t] = (g_rate_limiter = None)]
  /\ UNCHANGED <<g_rate_limiter, g_init_lock, g_returned, g_constructed,
                 g_resets>>
  /\ UNCHANGED <<rlvars, rvars, aqvars, bcvars, hvars, askvars, mqvars, tkvars>>

\* "with _init_lock:" is entered
g_lock(t) ==
  /\ g_pc[t] = "lock"
  /\ g_init_lock = NoOne
  /\ g_init_lock' = t
  /\ g_pc' = [g_pc EXCEPT ![t] = "recheck"]
  /\ UNCHANGED <<g_rate_limiter, g_saw_none, g_returned, g_constructed,
                 g_resets>>
  /\ UNCHANGED <<rlvars, rvars, aqvars, bcvars, hvars, askvars, mqvars, tkvars>>

\* g_recheck without the inner check: whoever gets the lock constructs
g_recheck_always_constructs(t) ==
  /\ g_pc[t] = "recheck"
  /\ g_pc' = [g_pc EXCEPT ![t] = "construct"]
  /\ UNCHANGED <<g_rate_limiter, g_init_lock, g_saw_none, g_returned,
                 g_constructed, g_resets>>
  /\ UNCHANGED <<rlvars, rvars, aqvars, bcvars, hvars, askvars, mqvars, tkvars>>

\* the inner "if _rate_limiter is None", under the lock
g_recheck(t) ==
  /\ g_pc[t] = "recheck"
  /\ g_pc' = [g_pc EXCEPT ![t] = IF g_rate_limiter = None THEN "construct"
                                 ELSE "unlock"]
  /\ UNCHANGED <<g_rate_limiter, g_init_lock, g_saw_none, g_returned,
                 g_constructed, g_resets>>
  /\ UNCHANGED <<rlvars, rvars, aqvars, bcvars, hvars, askvars, mqvars, tkvars>>

\* _rate_limiter = RateLimiter(settings.llm_requests_per_minute): a new
\* instance, numbered in the order of construction
g_construct(t) ==
  /\ g_pc[t] = "construct"
  /\ g_constructed' = g_constructed + 1
  /\ g_rate_limiter' = g_constructed + 1
  /\ g_pc' = [g_pc EXCEPT ![t] = "unlock"]
  /\ UNCHANGED <<g_init_lock, g_saw_none, g_returned, g_resets>>
  /\ UNCHANGED <<rlvars, rvars, aqvars, bcvars, hvars, askvars, mqvars, tkvars>>

\* the with block is left
g_unlock(t) ==
  /\ g_pc[t] = "unlock"
  /\ g_init_lock' = NoOne
  /\ g_pc' = [g_pc EXCEPT ![t] = "return"]
  /\ UNCHANGED <<g_rate_limiter, g_saw_none, g_returned, g_constructed,
                 g_resets>>
  /\ UNCHANGED <<rlvars, rvars, aqvars, bcvars, hvars, askvars, mqvars, tkvars>>

\* "return _rate_limiter": the global is read once more
g_return(t) ==
  /\ g_pc[t] = "return"
  /\ g_returned' = [g_returned EXCEPT ![t] = Append(@, g_rate_limiter)]
  /\ g_pc' = [g_pc EXCEPT ![t] = "idle"]
  /\ UNCHANGED <<g_rate_limiter, g_init_lock, g_saw_none, g_constructed,
                 g_resets>>
  /\ UNCHANGED <<rlvars, rvars, aqvars, bcvars, hvars, askvars, mqvars, tkvars>>

\* reset_rate_limiter(): "with _init_lock: _rate_limiter = None"
reset_rate_limiter ==
  /\ g_resets < MaxResets
  /\ g_init_lock = NoOne
  /\ g_rate_limiter' = None
  /\ g_resets' = g_resets + 1
  /\ UNCHANGED <<g_init_lock, g_pc, g_saw_none, g_returned, g_constructed>>
  /\ UNCHANGED <<rlvars, rvars, aqvars, bcvars, hvars, askvars, mqvars, tkvars>>

NextGlobal ==
  \/ \E t \in Threads : g_call(t)
  \/ \E t \in Threads : g_check(t)
  \/ \E t \in Threads : g_lock(t)
  \/ \E t \in Threads : g_recheck(t)
  \/ \E t \in Threads : g_construct(t)
  \/ \E t \in Threads : g_unlock(t)
  \/ \E t \in Threads : g_return(t)
  \/ reset_rate_limiter

SpecGlobal == InitGlobal /\ [][NextGlobal]_vars

(***************************************************************************)
(* process_document_task: one Celery task for one document, run by a       *)
(* worker thread that owns its event loop; every failed run is retried     *)
(* until max_retries is used up.                                           *)
(***************************************************************************)
\* the thread that runs the task
TaskWorker == "w1"
\* generate_embeddings_batch(texts, batch_size=100)
batch_size == 100
\* @celery_app.task(bind=True, max_retries=3)
max_retries == 3
\* chunks of the document
MaxTaskChunks == 101
\* numbers of chunks chunk_text can give
ChunkCounts == {0, 1, MaxTaskChunks}

\* the provider steps of the task in order: the AIService method and the
\* provider method it calls
ProviderSteps ==
  <<[method |-> "generate_embeddings_batch", call |-> "aembed_documents"],
    [method |-> "generate_summary", call |-> "ainvoke"],
    [method |-> "extract_key_topics", call |-> "ainvoke"],
    [method |-> "categorize_document", call |-> "ainvoke"],
    [method |-> "analyze_sentiment", call |-> "ainvoke"],
    [method |-> "extract_key_insights", call |-> "ainvoke"]>>

\* iterations of "for i in range(0, len(texts), batch_size)"
Batches(n) == (n + batch_size - 1) \div batch_size

\* provider calls a service method makes: one per batch for the
\* embeddings, one for each of the others
ProviderCallsOf(step, n) == IF step = 1 THEN Batches(n) ELSE 1

\* the DocumentChunk rows a run adds; run stands for the identity of the
\* rows (their id and created_at)
chunk_rows(n, run) ==
  [i \in 1..n |-> [chunk_index |-> i - 1, run |-> run, embedding |-> FALSE]]

\* "for chunk_obj, embedding in zip(chunk_objects, embeddings)": the rows
\* this run added get their embedding
with_embeddings(rows, run) ==
  [i \in DOMAIN rows |->
     IF rows[i].run = run THEN [rows[i] EXCEPT !.embedding = TRUE]
     ELSE rows[i]]

\* what extract_key_insights can return: the object asked for, an object
\* with key points only, the fallback for invalid JSON (all lists empty),
\* or valid JSON that is not an object
InsightsResponses ==
  {[is_dict |-> TRUE, key_points |-> TRUE, entities |-> TRUE,
    action_items |-> TRUE],
   [is_dict |-> TRUE, key_points |-> TRUE, entities |-> FALSE,
    action_items |-> FALSE],
   [is_dict |-> TRUE, key_points |-> FALSE, entities |-> FALSE,
    action_items |-> FALSE],
   [is_dict |-> FALSE, key_points |-> FALSE, entities |-> FALSE,
    action_items |-> FALSE]}

DocumentInsight(insight_type, run) == [insight_type |-> insight_type, run |-> run]

\* the rows _save_insights adds after the summary row
optional_insight_rows(insights, run) ==
  (IF insights.key_points THEN <<DocumentInsight("key_points", run)>> ELSE <<>>)
  \o (IF insights.entities THEN <<DocumentInsight("entities", run)>> ELSE <<>>)
  \o (IF insights.action_items THEN <<DocumentInsight("action_items", run)>>
      ELSE <<>>)

\* the rows _save_insights leaves for the document
save_insights(insights, run) ==
  <<DocumentInsight("summary", run)>> \o optional_insight_rows(insights, run)

\* the limiter of the worker process has not been used; the task is taken
\* at MaxTime, so that the clock advances only while the task sleeps
InitTask ==
  /\ now = MaxTime
  /\ request_times = <<>>
  /\ lock = NoOne
  /\ async_lock = NoOne
  /\ pc = [p \in Callers |-> "idle"]
  /\ wait_time = [p \in Callers |-> 0]
  /\ sleep_until = [p \in Callers |-> 0]
  /\ recorded = [p \in Callers |-> 0]
  /\ calls = 0
  /\ started = {}
  /\ usage = NoUsage
  /\ InitNoRetrieval
  /\ InitNoRequest
  /\ InitNoContext
  /\ InitNoHistory
  /\ InitNoAsk
  /\ InitNoMulti
  /\ InitNoGlobal
  /\ tk_pc = "queued"
  /\ tk_step = 0
  /\ tk_retries = 0
  /\ tk_chunk_count \in ChunkCounts
  /\ tk_batches = 0
  /\ tk_slots = 0
  /\ tk_provider_calls = <<>>
  /\ tk_insights = NoInsights
  /\ tk_pending_insights = NoPending
  /\ tk_failures = {}
  /\ doc_status = "PENDING"
  /\ doc_chunks = <<>>
  /\ doc_insights = <<>>

\* "rate_limiter.wait_sync()" is entered
EnterWaitSync(p) ==
  /\ pc[p] = "idle"
  /\ pc' = [pc EXCEPT ![p] = "ws_lock"]
  /\ recorded' = [recorded EXCEPT ![p] = 0]
  /\ wait_time' = [wait_time EXCEPT ![p] = 0]
  /\ UNCHANGED <<now, request_times, lock, async_lock, sleep_until, calls,
                 started, usage>>

\* wait_sync or wait_async has returned to the task
tk_leave_wait ==
  /\ pc[TaskWorker] = "done"
  /\ pc' = [pc EXCEPT ![TaskWorker] = "idle"]
  /\ tk_slots' = tk_slots + recorded[TaskWorker]
  /\ recorded' = [recorded EXCEPT ![TaskWorker] = 0]
  /\ UNCHANGED <<now, request_times, lock, async_lock, wait_time, sleep_until,
                 calls, started, usage>>

\* the worker takes the task: the document is loaded and marked PROCESSING
tk_start ==
  /\ tk_pc = "queued"
  /\ doc_status' = "PROCESSING"
  /\ tk_step' = 0
  /\ tk_batches' = 0
  /\ tk_slots' = 0
  /\ tk_provider_calls' = <<>>
  /\ tk_insights' = NoInsights
  /\ tk_pending_insights' = NoPending
  /\ tk_pc' = "extract"
  /\ UNCHANGED <<tk_retries, tk_chunk_count, tk_failures, doc_chunks,
                 doc_insights>>
  /\ UNCHANGED <<rlvars, rvars, aqvars, bcvars, hvars, askvars, mqvars, gvars>>

\* document_processor.extract_text: it returns the text or raises
tk_extract ==
  /\ tk_pc = "extract"
  /\ \E ok \in BOOLEAN :
       /\ tk_pc' = IF ok THEN "chunk" ELSE "except"
       /\ tk_failures' = IF ok THEN tk_failures ELSE tk_failures \cup {"extract"}
  /\ UNCHANGED <<tk_step, tk_retries, tk_chunk_count, tk_batches, tk_slots,
                 tk_provider_calls, tk_insights, tk_pending_insights,
                 doc_status, doc_chunks, doc_insights>>
  /\ UNCHANGED <<rlvars, rvars, aqvars, bcvars, hvars, askvars, mqvars, gvars>>

\* tk_chunk without "Clear existing chunks"
tk_chunk_keeps_rows ==
  /\ tk_pc = "chunk"
  /\ doc_chunks' = doc_chunks \o chunk_rows(tk_chunk_count, tk_retries)
  /\ doc_status' = "EMBEDDING"
  /\ tk_step' = 1
  /\ EnterWaitSync(TaskWorker)
  /\ tk_pc' = "wait_sync"
  /\ UNCHANGED <<tk_retries, tk_chunk_count, tk_batches, tk_slots,
                 tk_provider_calls, tk_insights, tk_pending_insights,
                 tk_failures, doc_insights>>
  /\ UNCHANGED <<rvars, aqvars, bcvars, hvars, askvars, mqvars, gvars>>

\* chunk_text, the existing DocumentChunk rows are deleted and the new
\* ones added in one commit, status EMBEDDING, then rate_limiter.wait_sync()
\* before the embeddings
tk_chunk ==
  /\ tk_pc = "chunk"
  /\ doc_chunks' = chunk_rows(tk_chunk_count, tk_retries)
  /\ doc_status' = "EMBEDDING"
  /\ tk_step' = 1
  /\ EnterWaitSync(TaskWorker)
  /\ tk_pc' = "wait_sync"
  /\ UNCHANGED <<tk_retries, tk_chunk_count, tk_batches, tk_slots,
                 tk_provider_calls, tk_insights, tk_pending_insights,
                 tk_failures, doc_insights>>
  /\ UNCHANGED <<rvars, aqvars, bcvars, hvars, askvars, mqvars, gvars>>

\* wait_sync has returned: loop.run_until_complete(ai_service.<method>(...))
\* starts the service method of the step
tk_service ==
  /\ tk_pc = "wait_sync"
  /\ tk_leave_wait
  /\ tk_batches' = ProviderCallsOf(tk_step, tk_chunk_count)
  /\ tk_pc' = "service"
  /\ UNCHANGED <<tk_step, tk_retries, tk_chunk_count, tk_provider_calls,
                 tk_insights, tk_pending_insights, tk_failures, doc_status,
                 doc_chunks, doc_insights>>
  /\ UNCHANGED <<rvars, aqvars, bcvars, hvars, askvars, mqvars, gvars>>

\* the service method: "await self._rate_limiter.wait_async()" before its
\* next provider call
tk_wait_async ==
  /\ tk_pc = "service"
  /\ tk_batches > 0
  /\ EnterWaitAsync(TaskWorker)
  /\ tk_pc' = "wait_async"
  /\ UNCHANGED <<tk_step, tk_retries, tk_chunk_count, tk_batches, tk_slots,
                 tk_provider_calls, tk_insights, tk_pending_insights,
                 tk_failures, doc_status, doc_chunks, doc_insights>>
  /\ UNCHANGED <<rvars, aqvars, bcvars, hvars, askvars, mqvars, gvars>>

\* wait_async has returned: the provider call of the step, which answers
\* or raises
tk_provider ==
  /\ tk_pc = "wait_async"
  /\ tk_leave_wait
  /\ tk_provider_calls' = Append(tk_provider_calls, ProviderSteps[tk_step])
  /\ \E ok \in BOOLEAN :
       /\ tk_pc' = IF ok THEN "service" ELSE "except"
       /\ tk_batches' = IF ok THEN tk_batches - 1 ELSE tk_batches
       /\ tk_failures' = IF ok THEN tk_failures
                         ELSE tk_failures \cup {ProviderSteps[tk_step].method}
       /\ IF ok /\ tk_step = Len(ProviderSteps)
            THEN tk_insights' \in InsightsResponses
            ELSE tk_insights' = tk_insights
  /\ UNCHANGED <<tk_step, tk_retries, tk_chunk_count, tk_pending_insights,
                 doc_status, doc_chunks, doc_insights>>
  /\ UNCHANGED <<rvars, aqvars, bcvars, hvars, askvars, mqvars, gvars>>

\* the service method has returned: after the embeddings the chunks get
\* them and the status becomes ANALYZING; then the next
\* rate_limiter.wait_sync(), or, after the insights, the end of the analysis
tk_returned ==
  /\ tk_pc = "service"
  /\ tk_batches = 0
  /\ doc_chunks' = IF tk_step = 1 THEN with_embeddings(doc_chunks, tk_retries)
                   ELSE doc_chunks
  /\ doc_status' = IF tk_step = 1 THEN "ANALYZING" ELSE doc_status
  /\ IF tk_step < Len(ProviderSteps)
       THEN /\ tk_step' = tk_step + 1
            /\ EnterWaitSync(TaskWorker)
            /\ tk_pc' = "wait_sync"
       ELSE /\ tk_pc' = "save_insights"
            /\ UNCHANGED <<tk_step, rlvars>>
  /\ UNCHANGED <<tk_retries, tk_chunk_count, tk_batches, tk_slots,
                 tk_provider_calls, tk_insights, tk_pending_insights,
                 tk_failures, doc_insights>>
  /\ UNCHANGED <<rvars, aqvars, bcvars, hvars, askvars, mqvars, gvars>>

\* _save_insights: the existing rows are deleted and the summary row added;
\* insights.get raises when insights is not an object, otherwise the other
\* rows are added and committed and the document becomes COMPLETED
tk_save_insights ==
  /\ tk_pc = "save_insights"
  /\ IF tk_insights.is_dict
       THEN /\ doc_insights' = save_insights(tk_insights, tk_retries)
            /\ doc_status' = "COMPLETED"
            /\ tk_pc' = "completed"
            /\ UNCHANGED <<tk_pending_insights, tk_failures>>
       ELSE /\ tk_pending_insights' =
                 [dirty |-> TRUE,
                  rows |-> <<DocumentInsight("summary", tk_retries)>>]
            /\ tk_failures' = tk_failures \cup {"_save_insights"}
            /\ tk_pc' = "except"
            /\ UNCHANGED <<doc_insights, doc_status>>
  /\ UNCHANGED <<tk_step, tk_retries, tk_chunk_count, tk_batches, tk_slots,
                 tk_provider_calls, tk_insights, doc_chunks>>
  /\ UNCHANGED <<rlvars, rvars, aqvars, bcvars, hvars, askvars, mqvars, gvars>>

\* "except Exception": the document is marked FAILED and the session is
\* committed, with what it still held; self.retry queues the task again
\* while retries are left (the countdown is not modelled: a retry is taken
\* at any later time)
tk_except ==
  /\ tk_pc = "except"
  /\ doc_status' = "FAILED"
  /\ doc_insights' = IF tk_pending_insights.dirty THEN tk_pending_insights.rows
                     ELSE doc_insights
  /\ tk_pending_insights' = NoPending
  /\ IF tk_retries < max_retries
       THEN /\ tk_retries' = tk_retries + 1
            /\ tk_pc' = "queued"
       ELSE /\ tk_pc' = "failed"
            /\ UNCHANGED tk_retries
  /\ UNCHANGED <<tk_step, tk_chunk_count, tk_batches, tk_slots,
                 tk_provider_calls, tk_insights, tk_failures, doc_chunks>>
  /\ UNCHANGED <<rlvars, rvars, aqvars, bcvars, hvars, askvars, mqvars, gvars>>

NextTask ==
  \/ Tick
  \/ ws_lock(TaskWorker)
  \/ ws_wait(TaskWorker)
  \/ ws_sleep(TaskWorker)
  \/ ws_record(TaskWorker)
  \/ wa_alock(TaskWorker)
  \/ wa_lock(TaskWorker)
  \/ wa_wait(TaskWorker)
  \/ wa_sleep(TaskWorker)
  \/ wa_record(TaskWorker)
  \/ tk_start
  \/ tk_extract
  \/ tk_chunk
  \/ tk_service
  \/ tk_wait_async
  \/ tk_provider
  \/ tk_returned
  \/ tk_save_insights
  \/ tk_except

SpecTask == InitTask /\ [][NextTask]_vars

(***************************************************************************)
(* Properties of the rate limiter.                                         *)
(***************************************************************************)
\* the caller has seen a free slot (or finished its wait) and is about to
\* record its timestamp
Admitted(p) == pc[p] \in {"ws_record", "wa_record"}

\* C1: recorded timestamps newer than now - 60s never exceed the limit
\* while a single caller issues its acquire() calls back to back
C1_SingleCallerCeiling ==
  Cardinality(started) <= 1 => InWindow(request_times, now) <= RequestsPerMinute

\* C2: with threads in wait_sync and coroutines in wait_async on one limiter,
\* the prune + read + append of an acquire is atomic: two callers are never
\* both admitted (check passed, timestamp not yet appended) unless the window
\* has room for both, and the window never holds more than the limit
C2_AtomicAcquire ==
  /\ \A p, q \in Callers :
       (p # q /\ Admitted(p) /\ Admitted(q)) =>
         InWindow(request_times, now) + 2 <= RequestsPerMinute
  /\ InWindow(request_times, now) <= RequestsPerMinute

\* C24: acquire() re-evaluates the window against the limit after waking: a
\* timestamp is appended, by wait_sync or by wait_async, only when after
\* pruning fewer than R timestamps remain, whatever other acquirers did
\* while the caller was waiting
C24_RecheckBeforeRecord ==
  [][(\E p \in Callers : recorded'[p] = recorded[p] + 1) =>
       Len(cleanup_old_requests(request_times, now)) < RequestsPerMinute]_vars

\* C25: a caller of wait_sync or wait_async that is sleeping for a slot
\* does not hold the lock that guards the timestamp window, so that
\* get_current_usage() and the locked steps of other callers can run during
\* the sleep
C25_SleepsOutsideLock ==
  \A p \in Callers : Sleeping(p) => lock # p

\* C3: every acquire() that was issued eventually returns, having recorded
\* exactly one timestamp
C3_AcquireReturns ==
  \A p \in Callers :
    (pc[p] \in {"ws_lock", "wa_alock"}) ~> (pc[p] = "done" /\ recorded[p] = 1)

\* C3 witness: a caller that had to sleep for a slot has returned
C3_Witness ==
  \E p \in Callers : pc[p] = "done" /\ recorded[p] = 1 /\ now >= window_size
                       /\ Len(request_times) >= RequestsPerMinute

\* C4: a wait_async cancelled while suspended ends with the cancellation,
\* has recorded no timestamp, leaves the window as it is and gives the
\* asyncio lock back
C4_CancelRecordsNothing ==
  [][\A p \in AsyncCallers :
       (pc[p] # "cancelled" /\ pc'[p] = "cancelled") =>
         /\ pc[p] \in {"wa_alock", "wa_sleep"}
         /\ request_times' = request_times
         /\ recorded[p] = 0 /\ recorded'[p] = 0
         /\ async_lock' # p]_vars

\* C4 witness: a coroutine was cancelled in its asyncio.sleep
C4_Witness ==
  \E p \in AsyncCallers : pc[p] = "cancelled" /\ wait_time[p] > 0 /\ recorded[p] = 0

\* C5: a caller that sleeps for a slot sleeps for oldest + 60s - now, which is
\* positive and at most 60s; a single caller is free to go on as soon as that
\* time has passed
C5_WaitBound ==
  \A p \in Callers :
    Sleeping(p) =>
      /\ wait_time[p] > 0
      /\ wait_time[p] <= window_size
      /\ now <= sleep_until[p] =>
            /\ request_times # <<>>
            /\ sleep_until[p] = Head(request_times) + window_size
            /\ sleep_until[p] - now <= window_size - (now - Head(request_times))
      /\ (Cardinality(started) = 1 /\ now >= sleep_until[p]) =>
            ENABLED (ws_sleep(p) \/ wa_sleep(p))

\* C5 witness: a single caller sleeps although part of the window has
\* already elapsed
C5_Witness ==
  \E p \in Callers : /\ Sleeping(p) /\ Cardinality(started) = 1
                       /\ wait_time[p] > 0 /\ wait_time[p] < window_size

\* the timestamps of q that are not older than 60s at time t
NotOlder(q, t) == {i \in DOMAIN q : q[i] >= t - window_size}

\* C6: get_current_usage appends nothing, drops only timestamps older than
\* 60s, reports the number of timestamps left, the limit and the remaining
\* slots (limit - count, not below 0), and does not change the wait of any
\* later acquire()
C6_UsageReadOnly ==
  [][get_current_usage =>
       LET dropped == Len(request_times) - Len(request_times') IN
       /\ dropped >= 0
       /\ request_times' = SubSeq(request_times, dropped + 1, Len(request_times))
       /\ \A i \in 1..dropped : request_times[i] < now - window_size
       /\ usage'.requests_in_window = Cardinality(NotOlder(request_times, now))
       /\ usage'.requests_in_window = Len(request_times')
       /\ usage'.requests_per_minute_limit = RequestsPerMinute
       /\ usage'.remaining_requests >= 0
       /\ usage'.remaining_requests =
            Max(0, RequestsPerMinute - usage'.requests_in_window)
       /\ \A t \in now..(now + window_size + 30) :
            get_wait_time(cleanup_old_requests(request_times', t), t)
              = get_wait_time(cleanup_old_requests(request_times, t), t)
       /\ UNCHANGED <<pc, recorded, lock, async_lock>>]_vars

\* C6 witness: get_current_usage has dropped expired timestamps and reported
\* a window that still holds some
C6_Witness ==
  /\ usage.requests_in_window > 0
  /\ usage.requests_in_window = Len(request_times)
  /\ calls > Len(request_times)
  /\ usage.remaining_requests = RequestsPerMinute - usage.requests_in_window

(***************************************************************************)
(* Properties of retrieve_relevant_chunks.                                 *)
(***************************************************************************)
\* the similarity of a row to the query, for rows it is defined for
Similarity(row) == cosine_similarity(r_query, row.embedding.vec)

\* the embedding of the row is a non-zero vector of the query's dimension
WellFormed(row) ==
  /\ row.embedding.present
  /\ Len(row.embedding.vec) = Len(r_query)
  /\ \E j \in DOMAIN row.embedding.vec : row.embedding.vec[j] # 0

\* dot / sqrt(nn) < n / d, for a similarity that is a number
StrictlyBelow(score, thr) ==
  \/ score.dot < 0
  \/ score.dot >= 0 /\ score.dot * score.dot * thr.d * thr.d < thr.n * thr.n * score.nn

\* C8: no returned chunk has a similarity to the query strictly below
\* similarity_threshold, and every returned chunk is a row of the requested
\* document
C8_ThresholdExclusion ==
  r_pc = "returned" =>
    \A i \in DOMAIN r_result :
      LET row == r_result[i].chunk IN
      /\ row \in {db_chunks[j] : j \in DOMAIN db_chunks}
      /\ row.document_id = r_document
      /\ r_result[i].score = Similarity(row)
      /\ ~IsNaN(r_result[i].score)
      /\ ~StrictlyBelow(r_result[i].score, r_threshold)

\* C8 witness: a retrieval returned chunks while the requested document has
\* a chunk below the threshold and another document has one above it
C8_Witness ==
  /\ r_pc = "returned"
  /\ r_result # <<>>
  /\ r_threshold.n > 0
  /\ \E j \in DOMAIN db_chunks :
       /\ db_chunks[j].document_id = r_document
       /\ WellFormed(db_chunks[j])
       /\ StrictlyBelow(Similarity(db_chunks[j]), r_threshold)
  /\ \E j \in DOMAIN db_chunks :
       /\ db_chunks[j].document_id # r_document
       /\ WellFormed(db_chunks[j])
       /\ ~StrictlyBelow(Similarity(db_chunks[j]), r_threshold)

\* rows of the requested document whose similarity is at or above the
\* threshold
Eligible ==
  {j \in DOMAIN db_chunks :
     /\ db_chunks[j].document_id = r_document
     /\ WellFormed(db_chunks[j])
     /\ ~StrictlyBelow(Similarity(db_chunks[j]), r_threshold)}

\* row a is ranked before row b: higher similarity, or the same similarity
\* and the lower chunk_index
RankedBefore(a, b) ==
  \/ ScoreGT(Similarity(a), Similarity(b))
  \/ /\ ~ScoreGT(Similarity(b), Similarity(a))
     /\ a.chunk_index < b.chunk_index

\* the three chunks and the query of the ranking example
RankingExample ==
  /\ Len(db_chunks) = 3
  /\ \A j \in 1..3 : db_chunks[j].document_id = r_document
  /\ db_chunks[1].embedding = Vec(<<1, 0>>)
  /\ db_chunks[2].embedding = Vec(<<0, 1>>)
  /\ db_chunks[3].embedding = Vec(<<9, 1>>)
  /\ r_query = <<1, 0>>
  /\ r_threshold = [n |-> 1, d |-> 2]
  /\ r_k = 2

\* C9: the result is the list of chunks at or above the threshold, by
\* descending similarity, equal similarities by ascending chunk_index, cut
\* to the first k
C9_RankedTopK ==
  r_pc = "returned" =>
    /\ Len(r_result) = (IF r_k < Cardinality(Eligible) THEN r_k
                         ELSE Cardinality(Eligible))
    /\ \A i \in DOMAIN r_result :
         /\ \E j \in Eligible : db_chunks[j] = r_result[i].chunk
         /\ r_result[i].score = Similarity(r_result[i].chunk)
    /\ \A i, j \in DOMAIN r_result :
         i < j => RankedBefore(r_result[i].chunk, r_result[j].chunk)
    /\ \A j \in Eligible :
         (\A i \in DOMAIN r_result : r_result[i].chunk # db_chunks[j]) =>
           \A i \in DOMAIN r_result : RankedBefore(r_result[i].chunk, db_chunks[j])
    /\ RankingExample =>
         <<r_result[1].chunk.chunk_index, r_result[2].chunk.chunk_index>> = <<0, 2>>

\* C9 witness: the result was cut to k and holds two chunks of equal
\* similarity
C9_Witness ==
  /\ r_pc = "returned"
  /\ Cardinality(Eligible) > r_k
  /\ Len(r_result) = r_k
  /\ \E i, j \in DOMAIN r_result :
       /\ i < j
       /\ ~ScoreGT(r_result[i].score, r_result[j].score)
       /\ r_result[i].chunk.chunk_index < r_result[j].chunk.chunk_index

\* C10: a chunk with a missing or malformed embedding never makes the
\* retrieval fail and never appears in the result
C10_MalformedExcluded ==
  /\ r_pc # "raised"
  /\ r_pc = "returned" =>
       \A i \in DOMAIN r_result : WellFormed(r_result[i].chunk)

(***************************************************************************)
(* Properties of answer_question.                                          *)
(***************************************************************************)
\* timestamps the request has recorded so far
RequestTimestamps(p) ==
  aq_slots[p] + (IF aq_pc[p] \in {"retrieve", "generate", "suggest"}
                   THEN recorded[p] ELSE 0)

\* C7: every provider call of a request follows exactly one acquisition of
\* its own: the calls made never exceed the timestamps recorded, at most one
\* recorded timestamp is still unused, and a request that has ended has
\* recorded as many timestamps as it has made provider calls (two, and a
\* third when the suggestions were asked for)
C7_OneAcquisitionPerCall ==
  \A p \in AsyncCallers :
    /\ Len(aq_provider_calls[p]) <= RequestTimestamps(p)
    /\ RequestTimestamps(p) <= Len(aq_provider_calls[p]) + 1
    /\ aq_pc[p] \in {"done", "failed", "cancelled"} =>
         RequestTimestamps(p) = Len(aq_provider_calls[p])
    /\ aq_pc[p] = "done" =>
         Len(aq_provider_calls[p]) =
           (IF aq_include_suggestions[p] /\ aq_citations[p] > 0 THEN 3 ELSE 2)

\* C7 witness: a request has ended after three provider calls, the last of
\* them admitted after the limiter had made it wait
C7_Witness ==
  \E p \in AsyncCallers :
    /\ aq_pc[p] = "done"
    /\ Len(aq_provider_calls[p]) = 3
    /\ aq_slots[p] = 3
    /\ now >= window_size

\* C11: a request whose retrieval yields no chunk does not fail for that
\* reason: it ends after exactly one embedding call and one completion call,
\* the completion prompt carries the 'no relevant context' marker, no
\* suggestion call is made, and the result has context_used = 0, no citation
\* and no suggestion; it fails only when a provider call raised
C11_NoContextAnswered ==
  \A p \in AsyncCallers :
    aq_relevant[p] = <<>> =>
      /\ aq_pc[p] = "done" =>
           /\ aq_provider_calls[p] =
                <<ProviderCall("aembed_query", "", "ok"),
                  ProviderCall("ainvoke", "marker", "ok")>>
           /\ aq_result[p] = [context_used |-> 0, citations |-> 0,
                               suggestions |-> List(0)]
      /\ aq_pc[p] = "failed" =>
           aq_provider_calls[p][Len(aq_provider_calls[p])].response = "raise"
      /\ aq_pc[p] # "suggest"

\* C11 witness: the document has chunks, none reaches the threshold, and a
\* request that asked for suggestions has been answered
C11_Witness ==
  \E p \in AsyncCallers :
    /\ db_chunks # <<>>
    /\ aq_include_suggestions[p]
    /\ aq_pc[p] = "done"
    /\ aq_relevant[p] = <<>>

\* C14: the context_used of an answer is the number of chunks build_context
\* included (the number of citations it made), not the number retrieved
C14_ContextUsedIsIncluded ==
  \A p \in AsyncCallers :
    aq_pc[p] = "done" => aq_result[p].context_used = aq_citations[p]

\* the request has made the suggestion call
SuggestionCalled(p) ==
  \E i \in DOMAIN aq_provider_calls[p] :
    aq_provider_calls[p][i].call = "ainvoke_suggestions"

\* the suggestion call came back with anything but a JSON list of questions
SuggestionFailed(p) ==
  \E i \in DOMAIN aq_provider_calls[p] :
    /\ aq_provider_calls[p][i].call = "ainvoke_suggestions"
    /\ aq_provider_calls[p][i].response # "list"

\* C16: any failure of the suggestion step (the provider raises, or its
\* output is not a parseable list of questions) is swallowed: the request
\* does not fail and its result has suggestions = []
C16_SuggestionFailureSwallowed ==
  \A p \in AsyncCallers :
    SuggestionFailed(p) =>
      /\ aq_pc[p] = "done"
      /\ aq_result[p].suggestions = List(0)

\* C17: the suggestion call is made exactly when include_suggestions is
\* true and the built context is not empty; the suggestions of a result are
\* a list of at most 3 questions, the empty list when the call was not made
C17_SuggestionsWhenContext ==
  \A p \in AsyncCallers :
    aq_pc[p] = "done" =>
      /\ SuggestionCalled(p) <=> (aq_include_suggestions[p] /\ aq_citations[p] > 0)
      /\ aq_result[p].suggestions.type = "list"
      /\ aq_result[p].suggestions.len <= 3
      /\ ~SuggestionCalled(p) => aq_result[p].suggestions = List(0)

\* the steps of a request in their order
StepOrder ==
  {<<"idle", "retrieve">>, <<"retrieve", "score">>, <<"score", "build_context">>,
   <<"build_context", "load_history">>, <<"load_history", "generate">>,
   <<"generate", "suggest">>, <<"generate", "done">>, <<"suggest", "done">>}

\* the ways a request ends early: a failure of retrieval or generation, or
\* the cancellation of its task while it waits for a slot
EarlyEnds ==
  {<<"retrieve", "failed">>, <<"score", "failed">>, <<"generate", "failed">>,
   <<"retrieve", "cancelled">>, <<"generate", "cancelled">>,
   <<"suggest", "cancelled">>}

\* the methods of the provider calls a request has made, in order
CallsMade(p) ==
  [i \in DOMAIN aq_provider_calls[p] |-> aq_provider_calls[p][i].call]

\* C27: the steps of a request run in the order retrieve, build context,
\* load history, generate, optional suggest, done: every move of a request
\* is the next step of that order or ends it, its provider calls are the
\* embedding, then the answer, then the suggestions, an embedding or answer
\* call that raises ends the request as failed, and a request that has
\* ended takes no further step
C27_StepOrder ==
  [][\A p \in AsyncCallers :
       /\ aq_pc'[p] # aq_pc[p] =>
            <<aq_pc[p], aq_pc'[p]>> \in StepOrder \cup EarlyEnds
       /\ aq_pc[p] \in {"done", "failed", "cancelled"} =>
            /\ aq_pc'[p] = aq_pc[p]
            /\ aq_provider_calls'[p] = aq_provider_calls[p]
            /\ aq_result'[p] = aq_result[p]
       /\ \E n \in 0..3 :
            CallsMade(p)' =
              SubSeq(<<"aembed_query", "ainvoke", "ainvoke_suggestions">>, 1, n)
       /\ aq_provider_calls'[p] # aq_provider_calls[p] =>
            LET call == aq_provider_calls'[p][Len(aq_provider_calls'[p])] IN
            /\ call.call = "aembed_query" => aq_pc[p] = "retrieve"
            /\ call.call = "ainvoke" => aq_pc[p] = "generate"
            /\ call.call = "ainvoke_suggestions" => aq_pc[p] = "suggest"
            /\ (call.call # "ainvoke_suggestions" /\ call.response = "raise") =>
                 aq_pc'[p] = "failed"]_vars

\* C27 witness: one request has gone through every step, suggestions
\* included, and the other one has ended at a failed generation
C27_Witness ==
  \E p, q \in AsyncCallers :
    /\ aq_pc[p] = "done"
    /\ Len(aq_provider_calls[p]) = 3
    /\ aq_pc[q] = "failed"
    /\ Len(aq_provider_calls[q]) = 2

(***************************************************************************)
(* Properties of build_context.                                            *)
(***************************************************************************)
\* the budget the caller passed in (the configured one when it passed none)
PassedBudget ==
  IF bc_max_tokens = None THEN max_context_tokens ELSE bc_max_tokens

\* the token count of a chunk: the stored one, or the count of its content
\* when none is stored
TokenCount(chunk) ==
  IF chunk.token_count # 0 THEN chunk.token_count
  ELSE count_tokens(chunk.content_len)

RECURSIVE CumulativeTokens(_, _)
\* token count of the first k chunks of the list
CumulativeTokens(chunks, k) ==
  IF k = 0 THEN 0
  ELSE CumulativeTokens(chunks, k - 1) + TokenCount(chunks[k].chunk)

\* C12: build_context includes exactly the longest prefix of the ranked list
\* whose cumulative token count is within the budget: every included chunk
\* is whole and in order, the included ones fit, and the next one would not
C12_LongestPrefix ==
  bc_pc = "returned" =>
    /\ Len(bc_result) <= Len(bc_chunks)
    /\ bc_result = SubSeq(bc_chunks, 1, Len(bc_result))
    /\ CumulativeTokens(bc_chunks, Len(bc_result)) <= PassedBudget
    /\ Len(bc_result) < Len(bc_chunks) =>
         CumulativeTokens(bc_chunks, Len(bc_result) + 1) > PassedBudget

\* C13: build_context returns nothing whenever the list is empty or the
\* budget passed in is smaller than the first chunk's token count, for every
\* budget including 0
C13_NothingFits ==
  (/\ bc_pc = "returned"
   /\ \/ bc_chunks = <<>>
      \/ PassedBudget < TokenCount(bc_chunks[1].chunk)) =>
    bc_result = <<>>

(***************************************************************************)
(* Properties of build_chat_history.                                       *)
(***************************************************************************)
\* the last min(len, 2K) turns of the session
Window == LastN(h_messages, 2 * h_context_window)

\* the role a history entry is tagged with
TaggedRole(entry) ==
  CASE entry.type = "HumanMessage" -> "user"
    [] entry.type = "AIMessage" -> "assistant"
    [] OTHER -> "system"

\* history entry i is turn j of the session, tagged with its role
IsTurn(i, j) ==
  /\ h_result[i].content = h_messages[j].content
  /\ TaggedRole(h_result[i]) = h_messages[j].role

Replayed ==
  {j \in DOMAIN h_messages :
     /\ j > Len(h_messages) - Len(Window)
     /\ h_messages[j].role # "system"}

Committed == <<db_session, db_messages>>

\* C15: a request whose embedding or completion call fails persists
\* nothing: the step in which it fails and the step that handles the
\* failure leave the committed messages and the session's message_count,
\* total_tokens_used and last_message_at as they were, its user message is
\* dropped from the transaction, and it never commits afterwards
C15_FailurePersistsNothing ==
  [][\A p \in AsyncCallers :
       /\ (ask_pc'[p] \in {"raised", "failed"} /\ ask_pc'[p] # ask_pc[p]) =>
            /\ Committed' = Committed
            /\ \A i \in DOMAIN db_messages' : db_messages'[i].request # p
            /\ ask_pc'[p] = "failed" => ask_pending'[p] = <<>>
       /\ ask_pc[p] \in {"raised", "failed"} =>
            ask_pc'[p] \in {"raised", "failed"}]_vars

\* C15 witness: a request has failed after its user message was flushed,
\* on a session that holds an earlier exchange and while the other request
\* has committed its own
C15_Witness ==
  \E p, q \in AsyncCallers :
    /\ ask_pc[p] = "failed"
    /\ ask_pc[q] = "committed"
    /\ Len(db_messages) = 4

\* C30: once every ask_question request on the session has finished, the
\* session's message_count is the number of messages stored for it
C30_MessageCountMatchesMessages ==
  (\A p \in AsyncCallers : ask_pc[p] \in {"committed", "failed"}) =>
    db_session.message_count = Len(db_messages)

(***************************************************************************)
(* Properties of answer_multi_document_question.                           *)
(***************************************************************************)
\* C19: retrieve_from_multiple_documents computes the query embedding once:
\* when it has returned, for any number of documents, exactly one embedding
\* call has been made and one rate-limiter timestamp recorded
C19_OneEmbeddingPerQuery ==
  mq_pc = "build_context" =>
    /\ mq_embed_calls = 1
    /\ mq_slots = 1

\* entries of the merged list that did not enter the context
Excluded ==
  {j \in DOMAIN mq_all_chunks :
     \A i \in DOMAIN mq_result : mq_result[i] # mq_all_chunks[j]}

\* C20: at most 10 chunks enter the context whatever the number of
\* documents; they are entries of the merged list, all of them when it has
\* no more than 10, and none of them has a lower similarity than an entry
\* left out
C20_TopTenOfMerged ==
  mq_pc \in {"generate", "done"} =>
    /\ Len(mq_result) <= max_total_chunks
    /\ Len(mq_result) = max_total_chunks \/ Len(mq_result) = Len(mq_all_chunks)
    /\ \A i \in DOMAIN mq_result :
         /\ \E j \in DOMAIN mq_all_chunks : mq_all_chunks[j] = mq_result[i]
         /\ \A j \in Excluded :
              ~ScoreGT(mq_all_chunks[j].score, mq_result[i].score)

\* C20 witness: two documents gave more than 10 chunks between them, the
\* second one's are the more similar, and chunks of both documents were left
\* out; the answer has been returned
C20_Witness ==
  /\ mq_pc = "done"
  /\ Len(mq_all_chunks) > max_total_chunks
  /\ \E i, k \in DOMAIN mq_result :
       /\ mq_result[i].doc_id = mq_document_ids[2]
       /\ mq_result[k].doc_id = mq_document_ids[1]
       /\ ScoreGT(mq_result[i].score, mq_result[k].score)
  /\ \E j \in Excluded : mq_all_chunks[j].doc_id = mq_document_ids[1]

\* C22: the snippet of a citation of build_context is the first 200
\* characters of the chunk's content followed by the ellipsis when the
\* content is longer than 200 characters, and the content unchanged when it
\* has 200 characters or fewer
C22_SnippetTruncation ==
  bc_pc = "returned" =>
    /\ Len(bc_citations) = Len(bc_result)
    /\ \A i \in DOMAIN bc_citations :
         LET content_len == bc_result[i].chunk.content_len
             snippet == bc_citations[i].content_snippet IN
         /\ bc_citations[i].chunk_id = bc_result[i].chunk.chunk_index
         /\ content_len > 200 =>
              snippet.chars = 200 /\ snippet.ellipsis
         /\ content_len <= 200 =>
              snippet.chars = content_len /\ ~snippet.ellipsis

\* C22 witness: citations were made for a chunk of exactly 200 characters
\* and for one of 201
C22_Witness ==
  /\ bc_pc = "returned"
  /\ \E i, j \in DOMAIN bc_citations :
       /\ bc_result[i].chunk.content_len = 200
       /\ bc_result[j].chunk.content_len = 201

\* documents that own a chunk of the answer's context and citations
Contributing ==
  {mq_result[i].chunk.document_id : i \in DOMAIN mq_result}

\* the documents the request named
Requested == {mq_document_ids[i] : i \in DOMAIN mq_document_ids}

\* C21: documents_used lists, each once, exactly the documents that own at
\* least one chunk included in the context and the citations: a requested
\* document with no chunk at the threshold, or with all its chunks beyond
\* the cap of 10, is not listed, and no unrequested document is
C21_DocumentsUsed ==
  mq_pc = "done" =>
    LET used == mq_answer.documents_used IN
    /\ \A i, j \in DOMAIN used : i # j => used[i] # used[j]
    /\ {used[i] : i \in DOMAIN used} = Contributing
    /\ Contributing \subseteq Requested
    /\ Len(mq_answer.citations) = Len(mq_result)

\* C21 witness: two documents were requested and both gave chunks, more
\* than 10 in all; every chunk of one of them is beyond the cap and that
\* document is not listed
C21_Witness ==
  /\ mq_pc = "done"
  /\ Len(mq_all_chunks) > max_total_chunks
  /\ Len(mq_answer.documents_used) = 1
  /\ \E j \in DOMAIN mq_all_chunks :
       /\ mq_all_chunks[j].doc_id \in Requested
       /\ mq_all_chunks[j].doc_id \notin Contributing

\* C23: a citation of the multi-document path carries the content_snippet
\* that build_context makes for the same chunk: the first 200 characters
\* and the ellipsis when the content is longer than 200 characters, the
\* content unchanged otherwise
C23_SameSnippetOnBothPaths ==
  mq_pc = "done" =>
    \A i \in DOMAIN mq_answer.citations :
      /\ mq_answer.citations[i].chunk_id = mq_result[i].chunk.chunk_index
      /\ mq_answer.citations[i].content_snippet =
           make_citations(<<mq_result[i]>>)[1].content_snippet

(***************************************************************************)
(* Properties of get_rate_limiter.                                         *)
(***************************************************************************)
\* C29: while reset_rate_limiter() has not been called, at most one
\* RateLimiter has been constructed, and every get_rate_limiter() call that
\* has returned, from whatever thread, returned that one instance
C29_OneSharedLimiter ==
  g_resets = 0 =>
    /\ g_constructed <= 1
    /\ \A t \in Threads : \A i \in DOMAIN g_returned[t] :
         /\ g_constructed = 1
         /\ g_returned[t][i] = 1
         /\ g_returned[t][i] = g_rate_limiter

\* C29 witness: without a reset, two threads have both found the global
\* None at the outer check of their call and both calls have returned
C29_Witness ==
  /\ g_resets = 0
  /\ \E t, u \in Threads :
       /\ t # u
       /\ g_saw_none[t] /\ g_saw_none[u]
       /\ g_pc[t] = "idle" /\ g_pc[u] = "idle"
       /\ g_returned[t] # <<>> /\ g_returned[u] # <<>>

(***************************************************************************)
(* Properties of process_document_task.                                    *)
(***************************************************************************)
\* C26: a run of process_document_task that has completed has recorded as
\* many rate-limiter timestamps as it has made provider calls
C26_OneSlotPerProviderCall ==
  tk_pc = "completed" => tk_slots = Len(tk_provider_calls)

\* C28: when the task has completed, after whatever failed runs, the
\* document is COMPLETED and its stored chunks and insights are exactly
\* the rows of the completing run: nothing of an earlier run is left and
\* nothing is stored twice
C28_IdempotentUnderRetry ==
  tk_pc = "completed" =>
    /\ doc_status = "COMPLETED"
    /\ doc_chunks = with_embeddings(chunk_rows(tk_chunk_count, tk_retries),
                                    tk_retries)
    /\ doc_insights = save_insights(tk_insights, tk_retries)
    /\ \A i, j \in DOMAIN doc_chunks :
         doc_chunks[i].chunk_index = doc_chunks[j].chunk_index => i = j
    /\ \A i, j \in DOMAIN doc_insights :
         doc_insights[i].insight_type = doc_insights[j].insight_type => i = j

\* C28 witness: the task has completed on its second retry, for a document
\* with more than one batch of chunks, after one run failed at the summary
\* (its chunks stored) and one inside _save_insights (its chunks and its
\* summary row stored)
C28_Witness ==
  /\ tk_pc = "completed"
  /\ tk_retries = 2
  /\ tk_chunk_count > batch_size
  /\ "_save_insights" \in tk_failures
  /\ "generate_summary" \in tk_failures
  /\ Len(doc_insights) > 1

====
